---- MODULE Spec2Model ----
(***************************************************************************)
(* Model of Baikal's SceneTracker (App/Scene/scene_tracker.cpp): the scene *)
(* compilation cache that turns a host scene graph into flat device        *)
(* buffers and intersector handles, and reconciles edits incrementally.    *)
(*                                                                         *)
(* Scene objects are identified by their address, a small positive        *)
(* integer; 0 is the null pointer.  std::set<T const*> iterates in address *)
(* order, so every std::set of the source is a sequence sorted by address. *)
(* One CompileScene call is one atomic step; the device and intersector    *)
(* calls it makes are recorded, in order, in last.log.                     *)
(***************************************************************************)
EXTENDS Integers, Sequences, FiniteSets, TLC

\* ------------------------------------------------------------------ bounds
\* Number of scene-graph edits (attach, detach, set input, set dirty, ...)
\* a behaviour may contain.
MaxMut == 1

\* ------------------------------------------------------------------ universe
Null == 0
Scenes == {1, 2}
\* The scene the caller edits; scene 2 stays as it was built, and shares its
\* mesh, light and materials with scene 1.
Edited == {1}
Meshes == {1, 2}
Instances == {3, 4}
Shapes == Meshes \cup Instances
\* Instance::GetBaseShape
BaseShape(i) == 1
\* Mesh::GetNumVertices, GetNumNormals, GetNumUVs, GetNumIndices
GetNumVertices(m) == IF m = 1 THEN 1 ELSE 2
GetNumNormals(m) == IF m = 1 THEN 1 ELSE 2
GetNumUVs(m) == 1
GetNumIndices(m) == IF m = 1 THEN 3 ELSE 6

\* The default material owned by the tracker, and the user's materials.
m_default_material == 1
Materials == {1, 2, 3}
UserMaterials == Materials \ {m_default_material}
Textures == {1, 2}
\* Texture::GetSizeInBytes
GetSizeInBytes(t) == IF t = 1 THEN 2 ELSE 1

Lights == {1, 2, 3, 4, 5}
\* The dynamic type of each light, as GetLightType finds it.
LightKind(l) ==
    CASE l = 1 -> "Point"
      [] l = 2 -> "Ibl"
      [] l = 3 -> "Area"
      [] l = 4 -> "Ibl"
      [] OTHER -> "Directional"
\* ImageBasedLight::GetTexture
GetTexture(l) == IF l = 2 THEN 2 ELSE 1
\* AreaLight::GetShape
GetShape(l) == 1

Flags == {"kCamera", "kLights", "kShapes"}

\* ------------------------------------------------------------------ helpers
Range(s) == {s[i] : i \in 1..Len(s)}
Min(S) == CHOOSE x \in S : \A y \in S : x <= y
Max(a, b) == IF a >= b THEN a ELSE b

\* Iteration order of a std::set of pointers: ascending address.
RECURSIVE SetIter(_)
SetIter(S) == IF S = {} THEN <<>> ELSE <<Min(S)>> \o SetIter(S \ {Min(S)})

\* Position (1-based) of x in sequence s, 0 when absent.
PosOf(s, x) == IF x \in Range(s) THEN CHOOSE i \in 1..Len(s) : s[i] = x ELSE 0
Remove(s, x) == SelectSeq(s, LAMBDA y : y # x)
Fill(n, v) == [i \in 1..n |-> v]
\* std::copy / std::fill of vals into buf at 0-based offset off.
CopyInto(buf, off, vals) ==
    [i \in 1..Len(buf) |->
        IF i > off /\ i <= off + Len(vals) THEN vals[i - off] ELSE buf[i]]
PastEnd(buf, off, vals) == off + Len(vals) > Len(buf)

Ev(op, buf, n) == [op |-> op, buf |-> buf, n |-> n]

\* ------------------------------------------------------------------ state
VARIABLES
    \* scene graph (owned by the caller)
    shapeList,      \* Scene1 shape iterator, per scene
    lightList,      \* Scene1 light iterator, per scene
    camera,         \* Scene1::GetCamera() # nullptr, per scene
    sceneDirty,     \* Scene1::GetDirtyFlags, per scene
    cameraDirty,    \* Camera::IsDirty, per scene's camera
    shapeDirty,     \* Shape::IsDirty
    shapeMat,       \* Shape::GetMaterial (Null when none)
    lightDirty,     \* Light::IsDirty
    matDirty,       \* Material::IsDirty
    matDep,         \* MultiBxdf base_material/top_material input (Null: SingleBxdf)
    matTex,         \* albedo texture input (Null: a float4 albedo)
    texDirty,       \* Texture::IsDirty
    \* collectors (owned by the caller, passed to every call)
    mat_collector,
    tex_collector,
    \* tracker
    m_scene_cache,
    m_current_scene,
    m_api,
    \* bookkeeping
    last,           \* the last CompileScene call: scene, result, calls made
    edited,         \* the scene graph was edited since the last CompileScene call
    nmut            \* number of scene-graph edits so far

sceneVars == <<shapeList, lightList, camera, sceneDirty, cameraDirty, shapeDirty,
               shapeMat, lightDirty, matDirty, matDep, matTex, texDirty>>
trackerVars == <<mat_collector, tex_collector, m_scene_cache, m_current_scene,
                 m_api, last>>
vars == <<sceneVars, trackerVars, edited, nmut>>


\* ------------------------------------------------------------------ collector
\* Collector::Collect with the expand function applied to every root.
Collect(working, roots, expand) ==
    working \cup UNION {expand[roots[i]] : i \in 1..Len(roots)}
\* Collector::Commit: the working set becomes an ordered sequence; the index
\* of an item is its position in it.
Commit(working) == SetIter(working)
GetNumItems(items) == Len(items)
\* Collector::GetItemIndex (0-based).
GetItemIndex(items, x) == PosOf(items, x) - 1
\* Collector::CreateBundle: a snapshot of the committed items.
NoBundle == [valid |-> FALSE, items |-> <<>>]
CreateBundle(items) == [valid |-> TRUE, items |-> items]
\* Collector::NeedsUpdate.
NeedsUpdate(items, bundle, changed) ==
    \/ bundle.items # items
    \/ \E i \in 1..Len(items) : changed[items[i]]

\* ------------------------------------------------------------------ dependency expansion
\* Material::CreateMaterialIterator: the materials a material's inputs name.
MaterialIterator(m) == IF matDep[m] = Null THEN <<>> ELSE <<matDep[m]>>
\* Material::CreateTextureIterator
MaterialTextures(m) == IF matTex[m] = Null THEN {} ELSE {matTex[m]}
\* Light::CreateTextureIterator
LightTextures(l) == IF LightKind(l) = "Ibl" THEN {GetTexture(l)} ELSE {}

\* More loop iterations than any traversal of an acyclic material graph takes
\* (every material is popped at most once per path that reaches it).
DrainLimit == Cardinality(Materials) + 1

\* The stack loop of the shape -> materials lambda: pop, emplace, push every
\* dependency.  The loop keeps no visited set; done = FALSE when the stack is
\* still not empty after DrainLimit iterations.
RECURSIVE DrainStack(_, _, _)
DrainStack(material_stack, mats, n) ==
    IF material_stack = <<>> THEN [done |-> TRUE, mats |-> mats]
    ELSE IF n >= DrainLimit THEN [done |-> FALSE, mats |-> mats]
    ELSE LET m == material_stack[Len(material_stack)]
             popped == SubSeq(material_stack, 1, Len(material_stack) - 1)
         IN DrainStack(popped \o MaterialIterator(m), mats \cup {m}, n + 1)

\* Shape::GetMaterial, or the default material.
MaterialOrDefault(shape) ==
    IF shapeMat[shape] = Null THEN m_default_material ELSE shapeMat[shape]
ShapeMaterials(shape) == DrainStack(<<MaterialOrDefault(shape)>>, {}, 0)

\* ------------------------------------------------------------------ partition
\* A partition that excludes every base mesh, listed in the scene or not.
SplitWithoutSubtraction(shape_iter) ==
    LET meshes == {x \in Range(shape_iter) : x \notin Instances}
        instances == {x \in Range(shape_iter) : x \in Instances}
        excluded == {BaseShape(i) : i \in instances}
    IN [meshes |-> SetIter(meshes),
        instances |-> SetIter(instances),
        excluded_meshes |-> SetIter(excluded)]

\* A partition that notes the base mesh of every instance, in a list.
SplitBasePerInstance(shape_iter) ==
    LET meshes == {x \in Range(shape_iter) : x \notin Instances}
        instances == {x \in Range(shape_iter) : x \in Instances}
        bases == [k \in 1..Len(SetIter(instances)) |-> BaseShape(SetIter(instances)[k])]
    IN [meshes |-> SetIter(meshes),
        instances |-> SetIter(instances),
        excluded_meshes |-> SelectSeq(bases, LAMBDA b : b \notin meshes)]

\* SplitMeshesAndInstances: three std::sets, iterated in address order.
SplitMeshesAndInstances(shape_iter) ==
    LET meshes == {x \in Range(shape_iter) : x \notin Instances}
        instances == {x \in Range(shape_iter) : x \in Instances}
        excluded == {BaseShape(i) : i \in instances} \ meshes
    IN [meshes |-> SetIter(meshes),
        instances |-> SetIter(instances),
        excluded_meshes |-> SetIter(excluded)]

\* GetShapeIdx: position in meshes, excluded meshes, instances; -1 when absent.
GetShapeIdx(shape_iter, shape) ==
    LET sp == SplitMeshesAndInstances(shape_iter)
        order == sp.meshes \o sp.excluded_meshes \o sp.instances
    IN PosOf(order, shape) - 1


\* ------------------------------------------------------------------ compiled scene
\* Unwritten device memory and unwritten record slots.
GarbageElem == [mesh |-> 0, k |-> 0]
GarbageShape == [src |-> 0, numprims |-> -2, startvtx |-> -2, startidx |-> -2,
                 start_material_idx |-> -2, transform |-> 0]
GarbageMaterial == [src |-> 0, type |-> "garbage", kxmapidx |-> -2, nsmapidx |-> -2,
                    brdfbaseidx |-> -2, brdftopidx |-> -2]
GarbageLight == [src |-> 0, type |-> "garbage", tex |-> -2, texdiffuse |-> -2,
                 shapeidx |-> -2, primidx |-> -2]
GarbageTexture == [src |-> 0, dataoffset |-> -2]
GarbageByte == [tex |-> 0, k |-> 0]
GarbageCamera == [src |-> 0]
GarbageVolume == [type |-> 0]
GarbageInt == -2

GarbageOf(buf) ==
    CASE buf = "shapes" -> GarbageShape
      [] buf = "materials" -> GarbageMaterial
      [] buf = "lights" -> GarbageLight
      [] buf = "textures" -> GarbageTexture
      [] buf = "texturedata" -> GarbageByte
      [] buf = "camera" -> GarbageCamera
      [] buf = "volumes" -> GarbageVolume
      [] buf = "materialids" -> GarbageInt
      [] OTHER -> GarbageElem

\* ClwScene(): every buffer is a null buffer (element count 0), no handles,
\* no bundles.  uid tells the records of the cache apart.
ClwScene(uid) ==
    [uid |-> uid,
     camera |-> <<>>, camera_type |-> "kDefault",
     vertices |-> <<>>, normals |-> <<>>, uvs |-> <<>>, indices |-> <<>>,
     shapes |-> <<>>, materialids |-> <<>>,
     materials |-> <<>>, textures |-> <<>>, texturedata |-> <<>>,
     lights |-> <<>>, num_lights |-> 0, envmapidx |-> -1,
     volumes |-> <<>>,
     isect_shapes |-> <<>>, visible_shapes |-> <<>>,
     material_bundle |-> NoBundle, texture_bundle |-> NoBundle]

\* ------------------------------------------------------------------ device context
\* The state a CompileScene call works on: the record being compiled, the
\* intersector, the dirty bits it clears, the calls made so far, and the
\* exception in flight ("" when none).
Push(st, e) == [st EXCEPT !.log = Append(@, e)]
Throw(st, msg) == [st EXCEPT !.err = msg]
Failed(st) == st.err # ""

\* CLWContext::CreateBuffer<T>(n): a fresh buffer of n unwritten elements.
\* The device is an opaque collaborator: a strict one refuses a buffer of
\* size 0, a lenient one hands out an empty buffer.
CreateBuffer(st, env, buf, n) ==
    IF Failed(st) THEN st
    ELSE IF n = 0 /\ env.dev = "strict"
         THEN Throw(Push(st, Ev("CreateBuffer", buf, n)), "DeviceError")
         ELSE [Push(st, Ev("CreateBuffer", buf, n)) EXCEPT
                  !.out = [@ EXCEPT ![buf] = Fill(n, GarbageOf(buf))]]

\* CLWContext::MapBuffer, followed by Wait() where the source waits.  A strict
\* device refuses to map a null buffer.
MapBuffer(st, env, buf, wait) ==
    IF Failed(st) THEN st
    ELSE LET mapped == Push(st, Ev("MapBuffer", buf, Len(st.out[buf])))
         IN IF Len(st.out[buf]) = 0 /\ env.dev = "strict"
            THEN Throw(mapped, "DeviceError")
            ELSE IF wait THEN Push(mapped, Ev("Wait", buf, 0)) ELSE mapped

\* CLWContext::UnmapBuffer, followed by Wait() where the source waits.
UnmapBuffer(st, buf, wait) ==
    IF Failed(st) THEN st
    ELSE LET unmapped == Push(st, Ev("UnmapBuffer", buf, Len(st.out[buf])))
         IN IF wait THEN Push(unmapped, Ev("Wait", buf, 0)) ELSE unmapped

\* ------------------------------------------------------------------ camera
\* SceneTracker::UpdateCamera.  With no camera in the scene the pointer is
\* null and the first GetAperture() call is undefined behaviour: the call
\* either dies there or goes on with whatever it read.
UpdateCamera(s, st, env) ==
    IF Failed(st) THEN st
    ELSE IF ~camera[s] /\ env.ub = "crash" THEN Throw(st, "crash")
    ELSE LET mapped == MapBuffer(Push(st, Ev("UpdateCamera", "", s)), env, "camera", TRUE)
             data == IF camera[s] THEN [src |-> s] ELSE GarbageCamera
         IN IF Failed(mapped) THEN mapped
            ELSE LET written == [mapped EXCEPT
                         !.oob = @ \/ PastEnd(mapped.out.camera, 0, <<data>>),
                         !.out = [@ EXCEPT !.camera = CopyInto(@, 0, <<data>>)],
                         !.cameraDirty = IF camera[s] THEN [@ EXCEPT ![s] = FALSE] ELSE @]
                 IN UnmapBuffer(written, "camera", FALSE)

\* ------------------------------------------------------------------ lights
\* SceneTracker::WriteLight: the fields written depend on the kind; the
\* others keep what the slot held.
WriteLight(s, light, texs, slot) ==
    LET type == LightKind(light)
        typed == [slot EXCEPT !.src = light, !.type = type]
    IN CASE type = "Ibl" ->
              [typed EXCEPT !.tex = GetItemIndex(texs, GetTexture(light)),
                            !.texdiffuse = GetItemIndex(texs, GetTexture(light))]
         [] type = "Area" ->
              [typed EXCEPT !.shapeidx = GetShapeIdx(shapeList[s], GetShape(light)),
                            !.primidx = 0]
         [] OTHER -> typed

\* A serialisation loop that keeps the first image-based light it meets.
RECURSIVE WriteLightsFirstIbl(_, _, _, _, _)
WriteLightsFirstIbl(s, light_iter, texs, st, num_lights_written) ==
    IF light_iter = <<>> THEN [st EXCEPT !.out.num_lights = num_lights_written]
    ELSE LET light == Head(light_iter)
             n == num_lights_written
             slot == IF n < Len(st.out.lights) THEN st.out.lights[n + 1] ELSE GarbageLight
             rec == WriteLight(s, light, texs, slot)
             st1 == [st EXCEPT
                        !.oob = @ \/ PastEnd(st.out.lights, n, <<rec>>),
                        !.out = [@ EXCEPT
                            !.lights = CopyInto(@, n, <<rec>>),
                            !.envmapidx = IF LightKind(light) = "Ibl" /\ @ = -1
                                          THEN n ELSE @],
                        !.lightDirty = [@ EXCEPT ![light] = FALSE]]
         IN WriteLightsFirstIbl(s, Tail(light_iter), texs, st1, n + 1)

\* The serialisation loop of UpdateLights.
RECURSIVE WriteLights(_, _, _, _, _)
WriteLights(s, light_iter, texs, st, num_lights_written) ==
    IF light_iter = <<>> THEN [st EXCEPT !.out.num_lights = num_lights_written]
    ELSE LET light == Head(light_iter)
             n == num_lights_written
             slot == IF n < Len(st.out.lights) THEN st.out.lights[n + 1] ELSE GarbageLight
             rec == WriteLight(s, light, texs, slot)
             st1 == [st EXCEPT
                        !.oob = @ \/ PastEnd(st.out.lights, n, <<rec>>),
                        !.out = [@ EXCEPT
                            !.lights = CopyInto(@, n, <<rec>>),
                            !.envmapidx = IF LightKind(light) = "Ibl" THEN n ELSE @],
                        !.lightDirty = [@ EXCEPT ![light] = FALSE]]
         IN WriteLights(s, Tail(light_iter), texs, st1, n + 1)

\* A lights pass that allocates the lights buffer anew on every call.
UpdateLightsAlwaysCreate(s, st, env, texs) ==
    IF Failed(st) THEN st
    ELSE LET num_lights == Len(lightList[s])
             st0 == Push(st, Ev("UpdateLights", "", s))
             sized == CreateBuffer(st0, env, "lights", num_lights)
             mapped == MapBuffer(sized, env, "lights", TRUE)
         IN IF Failed(mapped) THEN mapped
            ELSE LET reset == [mapped EXCEPT !.out.envmapidx = -1]
                     written == WriteLights(s, lightList[s], texs, reset, 0)
                 IN UnmapBuffer(written, "lights", FALSE)

\* SceneTracker::UpdateLights
UpdateLights(s, st, env, texs) ==
    IF Failed(st) THEN st
    ELSE LET num_lights == Len(lightList[s])
             st0 == Push(st, Ev("UpdateLights", "", s))
             sized == IF num_lights > Len(st0.out.lights)
                      THEN CreateBuffer(st0, env, "lights", num_lights)
                      ELSE st0
             mapped == MapBuffer(sized, env, "lights", TRUE)
         IN IF Failed(mapped) THEN mapped
            ELSE LET reset == [mapped EXCEPT !.out.envmapidx = -1]
                     written == WriteLights(s, lightList[s], texs, reset, 0)
                 IN UnmapBuffer(written, "lights", FALSE)


\* ------------------------------------------------------------------ shapes
\* The arrays a mesh exposes: element k of mesh m.
MeshArray(m, n) == [k \in 1..n |-> [mesh |-> m, k |-> k]]

\* The body of the mesh loop and of the excluded-mesh loop of UpdateShapes:
\* they differ in the material ids only.
WriteMesh(mesh, w, excluded, mats) ==
    LET numprims == GetNumIndices(mesh) \div 3
        shape == [src |-> mesh,
                  numprims |-> numprims,
                  startvtx |-> w.num_vertices_written,
                  startidx |-> w.num_indices_written,
                  start_material_idx |-> w.num_matids_written,
                  transform |-> mesh]
        matidx == IF excluded THEN -1
                  ELSE GetItemIndex(mats, MaterialOrDefault(mesh))
        vs == MeshArray(mesh, GetNumVertices(mesh))
        ns == MeshArray(mesh, GetNumNormals(mesh))
        us == MeshArray(mesh, GetNumUVs(mesh))
        is == MeshArray(mesh, GetNumIndices(mesh))
        ids == Fill(numprims, matidx)
    IN [w EXCEPT
           !.shape_data = [@ EXCEPT ![mesh] = shape],
           !.oob = \/ @
                   \/ PastEnd(w.out.vertices, w.num_vertices_written, vs)
                   \/ PastEnd(w.out.normals, w.num_normals_written, ns)
                   \/ PastEnd(w.out.uvs, w.num_uvs_written, us)
                   \/ PastEnd(w.out.indices, w.num_indices_written, is)
                   \/ PastEnd(w.out.shapes, w.num_shapes_written, <<shape>>)
                   \/ PastEnd(w.out.materialids, w.num_matids_written, ids),
           !.out = [@ EXCEPT
               !.vertices = CopyInto(@, w.num_vertices_written, vs),
               !.normals = CopyInto(@, w.num_normals_written, ns),
               !.uvs = CopyInto(@, w.num_uvs_written, us),
               !.indices = CopyInto(@, w.num_indices_written, is),
               !.shapes = CopyInto(@, w.num_shapes_written, <<shape>>),
               !.materialids = CopyInto(@, w.num_matids_written, ids)],
           !.num_vertices_written = @ + Len(vs),
           !.num_normals_written = @ + Len(ns),
           !.num_uvs_written = @ + Len(us),
           !.num_indices_written = @ + Len(is),
           !.num_shapes_written = @ + 1,
           !.num_matids_written = @ + numprims,
           !.shapeDirty = [@ EXCEPT ![mesh] = FALSE]]

RECURSIVE WriteMeshes(_, _, _, _)
WriteMeshes(meshes, w, excluded, mats) ==
    IF meshes = <<>> THEN w
    ELSE WriteMeshes(Tail(meshes), WriteMesh(Head(meshes), w, excluded, mats),
                     excluded, mats)

\* An instance loop that looks up the material of the base mesh.
WriteInstanceBaseMaterial(instance, w, mats) ==
    LET base_shape == BaseShape(instance)
        numprims == GetNumIndices(base_shape) \div 3
        shape == [w.shape_data[base_shape] EXCEPT
                     !.src = instance,
                     !.start_material_idx = w.num_matids_written,
                     !.transform = instance]
        mat_idx == GetItemIndex(mats, MaterialOrDefault(base_shape))
        ids == Fill(numprims, mat_idx)
    IN [w EXCEPT
           !.oob = \/ @
                   \/ PastEnd(w.out.shapes, w.num_shapes_written, <<shape>>)
                   \/ PastEnd(w.out.materialids, w.num_matids_written, ids),
           !.out = [@ EXCEPT
               !.shapes = CopyInto(@, w.num_shapes_written, <<shape>>),
               !.materialids = CopyInto(@, w.num_matids_written, ids)],
           !.num_shapes_written = @ + 1,
           !.num_matids_written = @ + numprims,
           !.shapeDirty = [@ EXCEPT ![instance] = FALSE]]

\* An instance loop that leaves the record its base mesh's material range.
WriteInstanceBaseRegion(instance, w, mats) ==
    LET base_shape == BaseShape(instance)
        numprims == GetNumIndices(base_shape) \div 3
        shape == [w.shape_data[base_shape] EXCEPT
                     !.src = instance,
                     !.transform = instance]
        mat_idx == GetItemIndex(mats, MaterialOrDefault(instance))
        ids == Fill(numprims, mat_idx)
    IN [w EXCEPT
           !.oob = \/ @
                   \/ PastEnd(w.out.shapes, w.num_shapes_written, <<shape>>)
                   \/ PastEnd(w.out.materialids, w.num_matids_written, ids),
           !.out = [@ EXCEPT
               !.shapes = CopyInto(@, w.num_shapes_written, <<shape>>),
               !.materialids = CopyInto(@, w.num_matids_written, ids)],
           !.num_shapes_written = @ + 1,
           !.num_matids_written = @ + numprims,
           !.shapeDirty = [@ EXCEPT ![instance] = FALSE]]

\* The body of the instance loop of UpdateShapes.
WriteInstance(instance, w, mats) ==
    LET base_shape == BaseShape(instance)
        numprims == GetNumIndices(base_shape) \div 3
        shape == [w.shape_data[base_shape] EXCEPT
                     !.src = instance,
                     !.start_material_idx = w.num_matids_written,
                     !.transform = instance]
        mat_idx == GetItemIndex(mats, MaterialOrDefault(instance))
        ids == Fill(numprims, mat_idx)
    IN [w EXCEPT
           !.oob = \/ @
                   \/ PastEnd(w.out.shapes, w.num_shapes_written, <<shape>>)
                   \/ PastEnd(w.out.materialids, w.num_matids_written, ids),
           !.out = [@ EXCEPT
               !.shapes = CopyInto(@, w.num_shapes_written, <<shape>>),
               !.materialids = CopyInto(@, w.num_matids_written, ids)],
           !.num_shapes_written = @ + 1,
           !.num_matids_written = @ + numprims,
           !.shapeDirty = [@ EXCEPT ![instance] = FALSE]]

RECURSIVE WriteInstances(_, _, _)
WriteInstances(instances, w, mats) ==
    IF instances = <<>> THEN w
    ELSE WriteInstances(Tail(instances), WriteInstance(Head(instances), w, mats), mats)

RECURSIVE Sum(_, _)
Sum(seq, f) == IF seq = <<>> THEN 0 ELSE f[Head(seq)] + Sum(Tail(seq), f)

\* Element counts that take the vertex pools of the listed meshes only.
ShapeCountsListedOnly(s) ==
    LET sp == SplitMeshesAndInstances(shapeList[s])
        stored == sp.meshes \o sp.excluded_meshes
    IN [num_vertices |-> Sum(sp.meshes, [m \in Meshes |-> GetNumVertices(m)]),
        num_normals |-> Sum(sp.meshes, [m \in Meshes |-> GetNumNormals(m)]),
        num_uvs |-> Sum(sp.meshes, [m \in Meshes |-> GetNumUVs(m)]),
        num_indices |-> Sum(sp.meshes, [m \in Meshes |-> GetNumIndices(m)]),
        num_material_ids |->
            Sum(stored, [m \in Meshes |-> GetNumIndices(m) \div 3])
            + Sum(sp.instances,
                  [i \in Instances |-> GetNumIndices(BaseShape(i)) \div 3]),
        num_shapes |-> Len(sp.meshes) + Len(sp.excluded_meshes) + Len(sp.instances)]

\* The element counts UpdateShapes computes before it allocates.
ShapeCounts(s) ==
    LET sp == SplitMeshesAndInstances(shapeList[s])
        stored == sp.meshes \o sp.excluded_meshes
    IN [num_vertices |-> Sum(stored, [m \in Meshes |-> GetNumVertices(m)]),
        num_normals |-> Sum(stored, [m \in Meshes |-> GetNumNormals(m)]),
        num_uvs |-> Sum(stored, [m \in Meshes |-> GetNumUVs(m)]),
        num_indices |-> Sum(stored, [m \in Meshes |-> GetNumIndices(m)]),
        num_material_ids |->
            Sum(stored, [m \in Meshes |-> GetNumIndices(m) \div 3])
            + Sum(sp.instances,
                  [i \in Instances |-> GetNumIndices(BaseShape(i)) \div 3]),
        num_shapes |-> Len(sp.meshes) + Len(sp.excluded_meshes) + Len(sp.instances)]

\* The six CreateBuffer calls of UpdateShapes and the six MapBuffer calls
\* after them; only the last map is waited for.
CreateShapeBuffers(st, env, n) ==
    LET c1 == CreateBuffer(st, env, "vertices", n.num_vertices)
        c2 == CreateBuffer(c1, env, "normals", n.num_normals)
        c3 == CreateBuffer(c2, env, "uvs", n.num_uvs)
        c4 == CreateBuffer(c3, env, "indices", n.num_indices)
        c5 == CreateBuffer(c4, env, "shapes", n.num_shapes)
    IN CreateBuffer(c5, env, "materialids", n.num_material_ids)

MapShapeBuffers(st, env) ==
    LET m1 == MapBuffer(st, env, "vertices", FALSE)
        m2 == MapBuffer(m1, env, "normals", FALSE)
        m3 == MapBuffer(m2, env, "uvs", FALSE)
        m4 == MapBuffer(m3, env, "indices", FALSE)
        m5 == MapBuffer(m4, env, "materialids", FALSE)
    IN MapBuffer(m5, env, "shapes", TRUE)

\* The cursors of the three loops of UpdateShapes, with the buffers they
\* write and the shape_data map.
ShapeWriter(st) ==
    [out |-> st.out, oob |-> st.oob, shapeDirty |-> st.shapeDirty,
     shape_data |-> [m \in Meshes |-> GarbageShape],
     num_vertices_written |-> 0, num_normals_written |-> 0,
     num_uvs_written |-> 0, num_indices_written |-> 0,
     num_matids_written |-> 0, num_shapes_written |-> 0]

\* The call state after the three loops.
ShapesWritten(st, w) ==
    [st EXCEPT !.out = w.out, !.oob = w.oob, !.shapeDirty = w.shapeDirty]

\* The three loops of UpdateShapes: meshes, excluded meshes, instances.
WriteShapeBuffers(s, st, mats) ==
    IF Failed(st) THEN st
    ELSE LET sp == SplitMeshesAndInstances(shapeList[s])
             w1 == WriteMeshes(sp.meshes, ShapeWriter(st), FALSE, mats)
             w2 == WriteMeshes(sp.excluded_meshes, w1, TRUE, mats)
         IN ShapesWritten(st, WriteInstances(sp.instances, w2, mats))

\* An unmap sequence that leaves the material ids mapped.
UnmapShapeBuffersButOne(st) ==
    LET u1 == UnmapBuffer(st, "vertices", FALSE)
        u2 == UnmapBuffer(u1, "normals", FALSE)
        u3 == UnmapBuffer(u2, "uvs", FALSE)
        u4 == UnmapBuffer(u3, "indices", FALSE)
    IN UnmapBuffer(u4, "shapes", TRUE)

\* The six UnmapBuffer calls of UpdateShapes; only the last is waited for.
UnmapShapeBuffers(st) ==
    LET u1 == UnmapBuffer(st, "vertices", FALSE)
        u2 == UnmapBuffer(u1, "normals", FALSE)
        u3 == UnmapBuffer(u2, "uvs", FALSE)
        u4 == UnmapBuffer(u3, "indices", FALSE)
        u5 == UnmapBuffer(u4, "materialids", FALSE)
    IN UnmapBuffer(u5, "shapes", TRUE)

\* SceneTracker::UpdateShapes
UpdateShapes(s, st, env, mats) ==
    IF Failed(st) THEN st
    ELSE UnmapShapeBuffers(
           WriteShapeBuffers(s,
             MapShapeBuffers(
               CreateShapeBuffers(Push(st, Ev("UpdateShapes", "", s)), env,
                                  ShapeCounts(s)),
               env),
             mats))


\* ------------------------------------------------------------------ materials
\* GetMaterialType: a material with a material input is a MultiBxdf (kMix),
\* one without is a SingleBxdf (kLambert).
GetMaterialType(material) == IF matDep[material] = Null THEN "kLambert" ELSE "kMix"

\* SceneTracker::WriteMaterial: the record written over what the slot held.
\* kLambert writes the albedo (kxmapidx); kMix writes the two dependency
\* indices and the weight (nsmapidx).
WriteMaterial(material, mats, texs, slot) ==
    LET type == GetMaterialType(material)
        typed == [slot EXCEPT !.src = material, !.type = type]
        texidx == IF matTex[material] = Null THEN -1
                  ELSE GetItemIndex(texs, matTex[material])
    IN IF type = "kLambert"
       THEN [typed EXCEPT !.kxmapidx = texidx]
       ELSE [typed EXCEPT !.brdfbaseidx = GetItemIndex(mats, matDep[material]),
                          !.brdftopidx = GetItemIndex(mats, matDep[material]),
                          !.nsmapidx = texidx]

RECURSIVE WriteMaterials(_, _, _, _, _)
WriteMaterials(mat_iter, mats, texs, st, num_materials_written) ==
    IF mat_iter = <<>> THEN st
    ELSE LET material == Head(mat_iter)
             n == num_materials_written
             slot == IF n < Len(st.out.materials) THEN st.out.materials[n + 1]
                     ELSE GarbageMaterial
             rec == WriteMaterial(material, mats, texs, slot)
             st1 == [st EXCEPT
                        !.oob = @ \/ PastEnd(st.out.materials, n, <<rec>>),
                        !.out = [@ EXCEPT !.materials = CopyInto(@, n, <<rec>>)],
                        !.matDirty = [@ EXCEPT ![material] = FALSE]]
         IN WriteMaterials(Tail(mat_iter), mats, texs, st1, n + 1)

\* SceneTracker::UpdateMaterials
UpdateMaterials(s, st, env, mats, texs) ==
    IF Failed(st) THEN st
    ELSE LET mat_buffer_size == GetNumItems(mats)
             st0 == Push(st, Ev("UpdateMaterials", "", s))
             sized == IF mat_buffer_size > Len(st0.out.materials)
                      THEN CreateBuffer(st0, env, "materials", mat_buffer_size)
                      ELSE st0
             mapped == MapBuffer(sized, env, "materials", TRUE)
         IN IF Failed(mapped) THEN mapped
            ELSE LET bundled == [mapped EXCEPT
                                    !.out = [@ EXCEPT !.material_bundle = CreateBundle(mats)]]
                     written == WriteMaterials(mats, mats, texs, bundled, 0)
                 IN UnmapBuffer(written, "materials", FALSE)

\* ------------------------------------------------------------------ textures
\* A header loop that takes the number of headers written for the offset.
RECURSIVE WriteTexturesIndexOffset(_, _, _, _)
WriteTexturesIndexOffset(tex_iter, st, num_textures_written, tex_data_buffer_size) ==
    IF tex_iter = <<>> THEN st
    ELSE LET tex == Head(tex_iter)
             rec == [src |-> tex, dataoffset |-> num_textures_written]
             st1 == [st EXCEPT
                        !.oob = @ \/ PastEnd(st.out.textures, num_textures_written, <<rec>>),
                        !.out = [@ EXCEPT
                            !.textures = CopyInto(@, num_textures_written, <<rec>>)]]
         IN WriteTexturesIndexOffset(Tail(tex_iter), st1, num_textures_written + 1,
                                     tex_data_buffer_size + GetSizeInBytes(tex))

\* The header loop of UpdateTextures: WriteTexture with the running offset.
RECURSIVE WriteTextures(_, _, _, _)
WriteTextures(tex_iter, st, num_textures_written, tex_data_buffer_size) ==
    IF tex_iter = <<>> THEN st
    ELSE LET tex == Head(tex_iter)
             rec == [src |-> tex, dataoffset |-> tex_data_buffer_size]
             st1 == [st EXCEPT
                        !.oob = @ \/ PastEnd(st.out.textures, num_textures_written, <<rec>>),
                        !.out = [@ EXCEPT
                            !.textures = CopyInto(@, num_textures_written, <<rec>>)]]
         IN WriteTextures(Tail(tex_iter), st1, num_textures_written + 1,
                          tex_data_buffer_size + GetSizeInBytes(tex))

\* The payload loop of UpdateTextures: WriteTextureData at the running offset.
RECURSIVE WriteTexturesData(_, _, _)
WriteTexturesData(tex_iter, st, num_bytes_written) ==
    IF tex_iter = <<>> THEN st
    ELSE LET tex == Head(tex_iter)
             bytes == [k \in 1..GetSizeInBytes(tex) |-> [tex |-> tex, k |-> k]]
             st1 == [st EXCEPT
                        !.oob = @ \/ PastEnd(st.out.texturedata, num_bytes_written, bytes),
                        !.out = [@ EXCEPT
                            !.texturedata = CopyInto(@, num_bytes_written, bytes)]]
         IN WriteTexturesData(Tail(tex_iter), st1, num_bytes_written + GetSizeInBytes(tex))

\* SceneTracker::UpdateTextures
UpdateTextures(s, st, env, texs) ==
    IF Failed(st) THEN st
    ELSE LET tex_buffer_size == GetNumItems(texs)
             st0 == Push(st, Ev("UpdateTextures", "", s))
         IN IF tex_buffer_size = 0
            THEN CreateBuffer(CreateBuffer(st0, env, "textures", 1), env, "texturedata", 1)
            ELSE
            LET sized == IF tex_buffer_size > Len(st0.out.textures)
                         THEN CreateBuffer(st0, env, "textures", tex_buffer_size)
                         ELSE st0
                mapped == MapBuffer(sized, env, "textures", TRUE)
            IN IF Failed(mapped) THEN mapped
               ELSE
               LET bundled == [mapped EXCEPT
                                  !.out = [@ EXCEPT !.texture_bundle = CreateBundle(texs)]]
                   headers == UnmapBuffer(WriteTextures(texs, bundled, 0, 0),
                                          "textures", FALSE)
                   tex_data_buffer_size ==
                       Sum(texs, [t \in Textures |-> GetSizeInBytes(t)])
                   resized == IF tex_data_buffer_size > Len(headers.out.texturedata)
                              THEN CreateBuffer(headers, env, "texturedata",
                                                tex_data_buffer_size)
                              ELSE headers
                   mapped2 == MapBuffer(resized, env, "texturedata", TRUE)
               IN IF Failed(mapped2) THEN mapped2
                  ELSE UnmapBuffer(WriteTexturesData(texs, mapped2, 0),
                                   "texturedata", FALSE)


\* ------------------------------------------------------------------ intersector
\* The intersection engine: every handle it ever created (a handle is its
\* position in shapes), the handles attached, the attached set as of the
\* last Commit, and whether attach state changed since.  role is the part of
\* the partition the handle was created for.
NoApi == [shapes |-> <<>>, attached |-> {}, committed |-> {}, uncommitted |-> FALSE]

\* IntersectionApi::DetachShape, DeleteShape
DetachShape(st, h) ==
    [Push(st, Ev("DetachShape", "", h)) EXCEPT
        !.api.attached = @ \ {h}, !.api.uncommitted = TRUE]
DeleteShape(st, h) ==
    [Push(st, Ev("DeleteShape", "", h)) EXCEPT !.api.shapes[h].deleted = TRUE]

\* IntersectionApi::CreateMesh / CreateInstance, then SetTransform and SetId.
CreateShape(st, kind, role, src, base, id) ==
    [Push(st, Ev(kind, "", Len(st.api.shapes) + 1)) EXCEPT
        !.api.shapes = Append(@, [kind |-> kind, role |-> role, src |-> src,
                                   base |-> base, transform |-> src, id |-> id,
                                   deleted |-> FALSE])]

\* A loop that deletes every handle without detaching it first.
RECURSIVE DeleteUndetached(_, _)
DeleteUndetached(handles, st) ==
    IF handles = <<>> THEN st
    ELSE DeleteUndetached(Tail(handles), DeleteShape(st, Head(handles)))

\* The first loop of UpdateIntersector: detach and delete every handle.
RECURSIVE DetachAndDelete(_, _)
DetachAndDelete(handles, st) ==
    IF handles = <<>> THEN st
    ELSE DetachAndDelete(Tail(handles), DeleteShape(DetachShape(st, Head(handles)),
                                                    Head(handles)))

\* The first loop of RecompileFull: delete every handle.
RECURSIVE DeleteAll(_, _)
DeleteAll(handles, st) ==
    IF handles = <<>> THEN st
    ELSE DeleteAll(Tail(handles), DeleteShape(st, Head(handles)))

\* A mesh loop that pushes every handle to visible_shapes.
RECURSIVE CreateMeshesAllVisible(_, _, _)
CreateMeshesAllVisible(meshes, w, visible) ==
    IF meshes = <<>> THEN w
    ELSE LET mesh == Head(meshes)
             shape == Len(w.st.api.shapes) + 1
             created == CreateShape(w.st, "CreateMesh",
                                    IF visible THEN "mesh" ELSE "excluded",
                                    mesh, Null, w.id)
             pushed == [created EXCEPT
                           !.out.isect_shapes = Append(@, shape),
                           !.out.visible_shapes = Append(@, shape)]
         IN CreateMeshesAllVisible(Tail(meshes),
                         [st |-> pushed, id |-> w.id + 1,
                          rr_shapes |-> [w.rr_shapes EXCEPT ![mesh] = shape]],
                         visible)

\* The mesh loop and the excluded-mesh loop of UpdateIntersector.  w carries
\* the call state, the next id and the rr_shapes map.
RECURSIVE CreateMeshes(_, _, _)
CreateMeshes(meshes, w, visible) ==
    IF meshes = <<>> THEN w
    ELSE LET mesh == Head(meshes)
             shape == Len(w.st.api.shapes) + 1
             created == CreateShape(w.st, "CreateMesh",
                                    IF visible THEN "mesh" ELSE "excluded",
                                    mesh, Null, w.id)
             pushed == [created EXCEPT
                           !.out.isect_shapes = Append(@, shape),
                           !.out.visible_shapes =
                               IF visible THEN Append(@, shape) ELSE @]
         IN CreateMeshes(Tail(meshes),
                         [st |-> pushed, id |-> w.id + 1,
                          rr_shapes |-> [w.rr_shapes EXCEPT ![mesh] = shape]],
                         visible)

\* The instance loop of UpdateIntersector.
RECURSIVE CreateInstances(_, _)
CreateInstances(instances, w) ==
    IF instances = <<>> THEN w
    ELSE LET instance == Head(instances)
             shape == Len(w.st.api.shapes) + 1
             rr_mesh == w.rr_shapes[BaseShape(instance)]
             created == CreateShape(w.st, "CreateInstance", "instance",
                                    instance, rr_mesh, w.id)
             pushed == [created EXCEPT
                           !.out.isect_shapes = Append(@, shape),
                           !.out.visible_shapes = Append(@, shape)]
         IN CreateInstances(Tail(instances),
                            [w EXCEPT !.st = pushed, !.id = w.id + 1])

\* A cursor whose ids go on from the handles the intersector already made.
HandleCursorContinuing(st) ==
    [st |-> st, id |-> Len(st.api.shapes) + 1, rr_shapes |-> [m \in Meshes |-> Null]]
\* The locals of UpdateIntersector before its loops: int id = 1 and an empty
\* rr_shapes map.
HandleCursor(st) ==
    [st |-> st, id |-> 1, rr_shapes |-> [m \in Meshes |-> Null]]

\* SceneTracker::UpdateIntersector
UpdateIntersector(s, st) ==
    IF Failed(st) THEN st
    ELSE LET st0 == Push(st, Ev("UpdateIntersector", "", s))
             deleted == DetachAndDelete(st0.out.isect_shapes, st0)
             cleared == [deleted EXCEPT !.out.isect_shapes = <<>>,
                                        !.out.visible_shapes = <<>>]
         IN IF shapeList[s] = <<>> THEN Throw(cleared, "No shapes in the scene")
            ELSE LET sp == SplitMeshesAndInstances(shapeList[s])
                     w1 == CreateMeshes(sp.meshes, HandleCursor(cleared), TRUE)
                     w2 == CreateMeshes(sp.excluded_meshes, w1, FALSE)
                     w3 == CreateInstances(sp.instances, w2)
                 IN w3.st

\* The attach loop of ReloadIntersector.
RECURSIVE AttachShapes(_, _)
AttachShapes(handles, st) ==
    IF handles = <<>> THEN st
    ELSE AttachShapes(Tail(handles),
                      [Push(st, Ev("AttachShape", "", Head(handles))) EXCEPT
                          !.api.attached = @ \cup {Head(handles)},
                          !.api.uncommitted = TRUE])

\* SceneTracker::ReloadIntersector: DetachAll, attach the visible shapes, Commit.
ReloadIntersector(s, st) ==
    IF Failed(st) THEN st
    ELSE LET detached == [Push(st, Ev("DetachAll", "", s)) EXCEPT
                             !.api.attached = {}, !.api.uncommitted = TRUE]
             attached == AttachShapes(detached.out.visible_shapes, detached)
         IN [Push(attached, Ev("Commit", "", s)) EXCEPT
                !.api.committed = attached.api.attached,
                !.api.uncommitted = FALSE]

\* ------------------------------------------------------------------ full rebuild
\* The tail of RecompileFull: the volumes buffer and its one record.
WriteVolumes(st, env) ==
    IF Failed(st) THEN st
    ELSE [st EXCEPT !.out.volumes = <<[type |-> 1]>>]

\* A full rebuild whose lights pass sees the texture collector as it is
\* before anything was committed to it.
RecompileFullStaleLights(s, st, env, mats, texs) ==
    LET deleted == [DeleteAll(st.out.isect_shapes, Push(st, Ev("RecompileFull", "", s)))
                       EXCEPT !.out.isect_shapes = <<>>]
        cam == CreateBuffer(deleted, env, "camera", 1)
        p1 == UpdateCamera(s, cam, env)
        p2 == UpdateLights(s, p1, env, <<>>)
        p3 == UpdateShapes(s, p2, env, mats)
        p4 == UpdateMaterials(s, p3, env, mats, texs)
        p5 == UpdateTextures(s, p4, env, texs)
        p6 == UpdateIntersector(s, p5)
    IN WriteVolumes(CreateBuffer(p6, env, "volumes", 1), env)

\* A full rebuild that runs the materials pass before the shapes pass.
RecompileFullMaterialsFirst(s, st, env, mats, texs) ==
    LET deleted == [DeleteAll(st.out.isect_shapes, Push(st, Ev("RecompileFull", "", s)))
                       EXCEPT !.out.isect_shapes = <<>>]
        cam == CreateBuffer(deleted, env, "camera", 1)
        p1 == UpdateCamera(s, cam, env)
        p2 == UpdateLights(s, p1, env, texs)
        p3 == UpdateMaterials(s, p2, env, mats, texs)
        p4 == UpdateShapes(s, p3, env, mats)
        p5 == UpdateTextures(s, p4, env, texs)
        p6 == UpdateIntersector(s, p5)
    IN WriteVolumes(CreateBuffer(p6, env, "volumes", 1), env)

\* SceneTracker::RecompileFull
RecompileFull(s, st, env, mats, texs) ==
    LET deleted == [DeleteAll(st.out.isect_shapes, Push(st, Ev("RecompileFull", "", s)))
                       EXCEPT !.out.isect_shapes = <<>>]
        cam == CreateBuffer(deleted, env, "camera", 1)
        p1 == UpdateCamera(s, cam, env)
        p2 == UpdateLights(s, p1, env, texs)
        p3 == UpdateShapes(s, p2, env, mats)
        p4 == UpdateMaterials(s, p3, env, mats, texs)
        p5 == UpdateTextures(s, p4, env, texs)
        p6 == UpdateIntersector(s, p5)
    IN WriteVolumes(CreateBuffer(p6, env, "volumes", 1), env)


\* ------------------------------------------------------------------ CompileScene
\* A find that never hits: every call takes the first-compile branch.
CacheFindNever(s) == FALSE
\* m_scene_cache.find(&scene) != cend()
CacheFind(s) == s \in DOMAIN m_scene_cache
\* m_scene_cache.emplace: inserts only when the key is absent.
Emplace(cache, s, rec) == IF s \in DOMAIN cache THEN cache ELSE cache @@ (s :> rec)

\* What the collaborators of one call may do where the source leaves it open:
\* the outcome of undefined behaviour, and the device's answer to an empty
\* buffer.
Envs == [ub : {"crash", "continue"}, dev : {"strict", "lenient"}]
\* The choices that can make a difference to a call on scene s: the null
\* camera is only dereferenced, and a buffer of no elements only created or
\* mapped, on the way through RecompileFull (the cached path checks camera,
\* lights and shapes first).  Elsewhere one choice stands for all.
CallEnvs(s) ==
    {e \in Envs :
        /\ e.ub = "continue" => ~CacheFind(s) /\ ~camera[s]
        /\ e.dev = "lenient" =>
              ~CacheFind(s) /\ (shapeList[s] = <<>> \/ lightList[s] = <<>>)}

\* Scene1::ClearDirtyFlags
ClearDirtyFlags(flags, s) == [flags EXCEPT ![s] = {}]
\* mat_collector.Finalize(material->SetDirty(false))
Finalize(dirty, items) == [m \in DOMAIN dirty |-> IF m \in Range(items) THEN FALSE ELSE dirty[m]]

\* Faulty variants of the conditions below: a camera check that fires on any
\* flag, a lights check that ignores the lights' dirty bits, a shapes check
\* that always fires, a materials check that ignores the materials' dirty
\* bits.
CameraNeedsUpdateAnyFlag(dirty, camera_changed) == dirty # {} \/ camera_changed
LightsNeedUpdateFlagOnly(dirty, lights_changed) == "kLights" \in dirty
ShapesAlwaysNeedUpdate(dirty, shapes_changed) == TRUE
MaterialsNeedUpdateBundleOnly(out, mats, dirtyBits) ==
    ~out.material_bundle.valid \/ out.material_bundle.items # mats

\* The conditions under which the cached path runs a pass.
CameraNeedsUpdate(dirty, camera_changed) == "kCamera" \in dirty \/ camera_changed
LightsNeedUpdate(dirty, lights_changed) == "kLights" \in dirty \/ lights_changed
ShapesNeedUpdate(dirty, shapes_changed) == "kShapes" \in dirty \/ shapes_changed
MaterialsNeedUpdate(out, mats, dirtyBits) ==
    ~out.material_bundle.valid \/ NeedsUpdate(mats, out.material_bundle, dirtyBits)
TexturesNeedUpdate(out, texs, dirtyBits) ==
    /\ GetNumItems(texs) > 0
    /\ ~out.texture_bundle.valid \/ NeedsUpdate(texs, out.texture_bundle, dirtyBits)

\* The loops that look for a dirty light and a dirty shape.
LightsChanged(s, st) == \E i \in 1..Len(lightList[s]) : st.lightDirty[lightList[s][i]]
ShapesChanged(s, st) == \E i \in 1..Len(shapeList[s]) : st.shapeDirty[shapeList[s][i]]

\* The blocks of the else branch of CompileScene (the scene has a cache
\* entry), each on the call state the block before it left.  An exception
\* thrown by a block ends the call.
CachedCamera(s, st, env) ==
    IF ~camera[s] THEN Throw(st, "No camera in the scene")
    ELSE IF CameraNeedsUpdate(sceneDirty[s], st.cameraDirty[s])
         THEN UpdateCamera(s, st, env)
         ELSE st

\* A lights block that looks for lights only after it has run the pass.
CachedLightsCheckedLate(s, st, env, texs) ==
    IF Failed(st) THEN st
    ELSE IF LightsNeedUpdate(sceneDirty[s], LightsChanged(s, st))
         THEN (IF lightList[s] = <<>>
               THEN Throw(UpdateLights(s, st, env, texs), "No lights in the scene")
               ELSE UpdateLights(s, st, env, texs))
    ELSE IF lightList[s] = <<>> THEN Throw(st, "No lights in the scene")
    ELSE st

CachedLights(s, st, env, texs) ==
    IF Failed(st) THEN st
    ELSE IF lightList[s] = <<>> THEN Throw(st, "No lights in the scene")
    ELSE IF LightsNeedUpdate(sceneDirty[s], LightsChanged(s, st))
         THEN UpdateLights(s, st, env, texs)
         ELSE st

\* A shapes block that rewrites the shape buffers and leaves the handles.
CachedShapesBuffersOnly(s, st, env, mats) ==
    IF Failed(st) THEN st
    ELSE IF shapeList[s] = <<>> THEN Throw(st, "No shapes in the scene")
    ELSE IF ShapesNeedUpdate(sceneDirty[s], ShapesChanged(s, st))
         THEN ReloadIntersector(s, UpdateShapes(s, st, env, mats))
         ELSE st

CachedShapes(s, st, env, mats) ==
    IF Failed(st) THEN st
    ELSE IF shapeList[s] = <<>> THEN Throw(st, "No shapes in the scene")
    ELSE IF ShapesNeedUpdate(sceneDirty[s], ShapesChanged(s, st))
         THEN ReloadIntersector(s, UpdateIntersector(s, UpdateShapes(s, st, env, mats)))
         ELSE st

CachedMaterials(s, st, env, mats, texs) ==
    IF Failed(st) THEN st
    ELSE IF MaterialsNeedUpdate(st.out, mats, st.matDirty)
         THEN UpdateMaterials(s, st, env, mats, texs)
         ELSE st

CachedTextures(s, st, env, texs) ==
    IF Failed(st) THEN st
    ELSE IF TexturesNeedUpdate(st.out, texs, texDirty)
         THEN UpdateTextures(s, st, env, texs)
         ELSE st

\* A last block that leaves the intersector as the shapes block left it.
CachedCurrentKept(s, st) == st

CachedCurrent(s, st) ==
    IF Failed(st) THEN st
    ELSE IF m_current_scene # s THEN ReloadIntersector(s, st)
    ELSE st

\* The else branch of CompileScene: the scene has a cache entry.
CompileCached(s, start, env, mats, texs) ==
    CachedCurrent(s,
      CachedTextures(s,
        CachedMaterials(s,
          CachedShapes(s,
            CachedLights(s,
              CachedCamera(s, start, env),
              env, texs),
            env, mats),
          env, mats, texs),
        env, texs))

\* A first compile that reloads the intersector before the record is built.
CompileFirstReloadFirst(s, start, env, mats, texs) ==
    RecompileFull(s, ReloadIntersector(s, start), env, mats, texs)

\* The then branch of CompileScene: no cache entry yet.
CompileFirst(s, start, env, mats, texs) ==
    ReloadIntersector(s, RecompileFull(s, start, env, mats, texs))

\* The materials and the textures the two collectors hold after Commit.
\* hang: the material traversal of some shape never ends.
TraversalHangs(s) == \E i \in 1..Len(shapeList[s]) : ~ShapeMaterials(shapeList[s][i]).done
CollectMaterials(s) ==
    Commit(Collect({}, shapeList[s], [shape \in Shapes |-> ShapeMaterials(shape).mats]))
CollectTextures(s, mats) ==
    Commit(Collect(Collect({}, mats, [m \in Materials |-> MaterialTextures(m)]),
                   lightList[s],
                   [l \in Lights |-> LightTextures(l)]))

\* The cache when the passes start: the entry found, or a new one emplaced.
CacheAtStart(s) ==
    IF CacheFind(s) THEN m_scene_cache
    ELSE Emplace(m_scene_cache, s, ClwScene(Cardinality(DOMAIN m_scene_cache) + 1))

\* The calls CompileScene makes on the two collectors before it looks into
\* the cache: Clear both, Collect and Commit the materials, Collect twice
\* (from the materials, from the lights) and Commit the textures.
CollectorCalls ==
    <<Ev("Collector::Clear", "mat_collector", 0), Ev("Collector::Clear", "tex_collector", 0),
      Ev("Collector::Collect", "mat_collector", 0), Ev("Collector::Commit", "mat_collector", 0),
      Ev("Collector::Collect", "tex_collector", 0), Ev("Collector::Collect", "tex_collector", 0),
      Ev("Collector::Commit", "tex_collector", 0)>>

\* The call state when the passes start.
Start(s) ==
    [out |-> CacheAtStart(s)[s], api |-> m_api, log |-> CollectorCalls, err |-> "",
     oob |-> FALSE, shapeDirty |-> shapeDirty, lightDirty |-> lightDirty,
     matDirty |-> matDirty, cameraDirty |-> cameraDirty]

\* The passes of one call, first or cached.
RunPasses(s, env, mats, texs) ==
    IF CacheFind(s) THEN CompileCached(s, Start(s), env, mats, texs)
    ELSE CompileFirst(s, Start(s), env, mats, texs)

\* What a call that never returns leaves behind: nothing changed.
Hung(s) ==
    [hang |-> TRUE, found |-> CacheFind(s), mats |-> <<>>, texs |-> <<>>,
     result |-> "hang", cache |-> m_scene_cache, api |-> m_api, log |-> <<>>,
     oob |-> FALSE, current |-> m_current_scene, sceneDirty |-> sceneDirty,
     cameraDirty |-> cameraDirty, lightDirty |-> lightDirty,
     shapeDirty |-> shapeDirty, matDirty |-> matDirty]

\* What a call leaves behind when its passes ended in call state done.  The
\* tail of CompileScene (current scene, ClearDirtyFlags, Finalize) is only
\* reached when nothing was thrown; the record in the cache keeps whatever
\* the passes wrote into it either way.
Returned(s, mats, texs, done) ==
    [hang |-> FALSE, found |-> CacheFind(s), mats |-> mats, texs |-> texs,
     result |-> IF Failed(done) THEN done.err ELSE "ok",
     cache |-> [CacheAtStart(s) EXCEPT ![s] = done.out],
     api |-> done.api, log |-> done.log, oob |-> done.oob,
     current |-> IF Failed(done) THEN m_current_scene ELSE s,
     sceneDirty |-> IF Failed(done) THEN sceneDirty
                    ELSE ClearDirtyFlags(sceneDirty, s),
     cameraDirty |-> done.cameraDirty,
     lightDirty |-> done.lightDirty,
     shapeDirty |-> done.shapeDirty,
     matDirty |-> IF Failed(done) THEN done.matDirty
                  ELSE Finalize(done.matDirty, mats)]

Collected(s, env, mats, texs) ==
    Returned(s, mats, texs, RunPasses(s, env, mats, texs))

\* SceneTracker::CompileScene
CompileScene(s, env) ==
    IF TraversalHangs(s) THEN Hung(s)
    ELSE Collected(s, env, CollectMaterials(s), CollectTextures(s, CollectMaterials(s)))


\* ------------------------------------------------------------------ initial state
\* The scenes the caller has built before the first CompileScene call.  Scene
\* 2 is one mesh and one point light; scene 1 is one of four scenes.
InitScenes ==
    {[shapes |-> <<1>>, lights |-> <<1>>,
      mat |-> [x \in Shapes |-> Null],
      dep |-> [m \in Materials |-> Null],
      tex |-> [m \in Materials |-> Null]],
     [shapes |-> <<3>>, lights |-> <<1, 2, 5, 4>>,
      mat |-> [x \in Shapes |-> IF x = 3 THEN 3 ELSE Null],
      dep |-> [m \in Materials |-> Null],
      tex |-> [m \in Materials |-> IF m = 3 THEN 2 ELSE Null]],
     [shapes |-> <<2, 1, 3, 4>>, lights |-> <<3>>,
      mat |-> [x \in Shapes |-> IF x = 1 THEN 3 ELSE IF x = 3 THEN 2 ELSE Null],
      dep |-> [m \in Materials |-> IF m = 3 THEN 2 ELSE Null],
      tex |-> [m \in Materials |-> IF m = 2 THEN 1 ELSE Null]],
     [shapes |-> <<1>>, lights |-> <<>>,
      mat |-> [x \in Shapes |-> Null],
      dep |-> [m \in Materials |-> Null],
      tex |-> [m \in Materials |-> Null]]}

NoCall == [scene |-> Null, result |-> "none", log |-> <<>>, oob |-> FALSE]

Init ==
    \E sc \in InitScenes :
        /\ shapeList = [s \in Scenes |-> IF s = 1 THEN sc.shapes ELSE <<2>>]
        /\ lightList = [s \in Scenes |-> IF s = 1 THEN sc.lights ELSE <<1>>]
        /\ camera = [s \in Scenes |-> TRUE]
        /\ sceneDirty = [s \in Scenes |-> {}]
        /\ cameraDirty = [s \in Scenes |-> FALSE]
        /\ shapeDirty = [x \in Shapes |-> FALSE]
        /\ shapeMat = sc.mat
        /\ lightDirty = [l \in Lights |-> FALSE]
        /\ matDirty = [m \in Materials |-> FALSE]
        /\ matDep = sc.dep
        /\ matTex = sc.tex
        /\ texDirty = [x \in Textures |-> FALSE]
        /\ mat_collector = <<>>
        /\ tex_collector = <<>>
        /\ m_scene_cache = <<>>
        /\ m_current_scene = Null
        /\ m_api = NoApi
        /\ last = NoCall
        /\ edited = FALSE
        /\ nmut = 0

\* ------------------------------------------------------------------ the caller
\* A call that crashed or hangs ends the program.
Alive == last.result \notin {"crash", "hang"}

\* What every edit of the scene graph has in common.
Edit ==
    /\ Alive
    /\ nmut < MaxMut
    /\ nmut' = nmut + 1
    /\ edited' = TRUE
    /\ UNCHANGED trackerVars

\* Scene1::SetDirtyFlag
SetDirtyFlag ==
    \E s \in Edited, f \in Flags :
        /\ Edit
        /\ sceneDirty' = [sceneDirty EXCEPT ![s] = @ \cup {f}]
        /\ UNCHANGED <<shapeList, lightList, camera, cameraDirty, shapeDirty,
                       shapeMat, lightDirty, matDirty, matDep, matTex, texDirty>>

\* SceneObject::SetDirty(true) on a shape, a light, a camera, a material, a texture
SetShapeDirty ==
    \E x \in Shapes :
        /\ Edit
        /\ shapeDirty' = [shapeDirty EXCEPT ![x] = TRUE]
        /\ UNCHANGED <<shapeList, lightList, camera, sceneDirty, cameraDirty,
                       shapeMat, lightDirty, matDirty, matDep, matTex, texDirty>>
SetLightDirty ==
    \E l \in Lights :
        /\ Edit
        /\ lightDirty' = [lightDirty EXCEPT ![l] = TRUE]
        /\ UNCHANGED <<shapeList, lightList, camera, sceneDirty, cameraDirty,
                       shapeDirty, shapeMat, matDirty, matDep, matTex, texDirty>>
SetCameraDirty ==
    \E s \in Edited :
        /\ camera[s]
        /\ Edit
        /\ cameraDirty' = [cameraDirty EXCEPT ![s] = TRUE]
        /\ UNCHANGED <<shapeList, lightList, camera, sceneDirty, shapeDirty,
                       shapeMat, lightDirty, matDirty, matDep, matTex, texDirty>>
SetMaterialDirty ==
    \E m \in Materials :
        /\ Edit
        /\ matDirty' = [matDirty EXCEPT ![m] = TRUE]
        /\ UNCHANGED <<shapeList, lightList, camera, sceneDirty, cameraDirty,
                       shapeDirty, shapeMat, lightDirty, matDep, matTex, texDirty>>
SetTextureDirty ==
    \E x \in Textures :
        /\ Edit
        /\ texDirty' = [texDirty EXCEPT ![x] = TRUE]
        /\ UNCHANGED <<shapeList, lightList, camera, sceneDirty, cameraDirty,
                       shapeDirty, shapeMat, lightDirty, matDirty, matDep, matTex>>

\* Scene1::AttachShape / DetachShape: the shape list changes, kShapes is set.
AttachShape ==
    \E s \in Edited, x \in Shapes :
        /\ x \notin Range(shapeList[s])
        /\ Edit
        /\ shapeList' = [shapeList EXCEPT ![s] = Append(@, x)]
        /\ sceneDirty' = [sceneDirty EXCEPT ![s] = @ \cup {"kShapes"}]
        /\ UNCHANGED <<lightList, camera, cameraDirty, shapeDirty,
                       shapeMat, lightDirty, matDirty, matDep, matTex, texDirty>>
DetachShapeFromScene ==
    \E s \in Edited, x \in Shapes :
        /\ x \in Range(shapeList[s])
        /\ Edit
        /\ shapeList' = [shapeList EXCEPT ![s] = Remove(@, x)]
        /\ sceneDirty' = [sceneDirty EXCEPT ![s] = @ \cup {"kShapes"}]
        /\ UNCHANGED <<lightList, camera, cameraDirty, shapeDirty,
                       shapeMat, lightDirty, matDirty, matDep, matTex, texDirty>>

\* Scene1::AttachLight / DetachLight: the light list changes, kLights is set.
AttachLight ==
    \E s \in Edited, l \in Lights :
        /\ l \notin Range(lightList[s])
        /\ Edit
        /\ lightList' = [lightList EXCEPT ![s] = Append(@, l)]
        /\ sceneDirty' = [sceneDirty EXCEPT ![s] = @ \cup {"kLights"}]
        /\ UNCHANGED <<shapeList, camera, cameraDirty, shapeDirty,
                       shapeMat, lightDirty, matDirty, matDep, matTex, texDirty>>
DetachLight ==
    \E s \in Edited, l \in Lights :
        /\ l \in Range(lightList[s])
        /\ Edit
        /\ lightList' = [lightList EXCEPT ![s] = Remove(@, l)]
        /\ sceneDirty' = [sceneDirty EXCEPT ![s] = @ \cup {"kLights"}]
        /\ UNCHANGED <<shapeList, camera, cameraDirty, shapeDirty,
                       shapeMat, lightDirty, matDirty, matDep, matTex, texDirty>>

\* Scene1::SetCamera with a camera or with nullptr: kCamera is set.
SetCamera ==
    \E s \in Edited :
        /\ Edit
        /\ camera' = [camera EXCEPT ![s] = ~@]
        /\ cameraDirty' = [cameraDirty EXCEPT ![s] = FALSE]
        /\ sceneDirty' = [sceneDirty EXCEPT ![s] = @ \cup {"kCamera"}]
        /\ UNCHANGED <<shapeList, lightList, shapeDirty,
                       shapeMat, lightDirty, matDirty, matDep, matTex, texDirty>>

\* Shape::SetMaterial: the shape becomes dirty.
SetMaterial ==
    \E x \in Shapes, m \in UserMaterials \cup {Null} :
        /\ shapeMat[x] # m
        /\ Edit
        /\ shapeMat' = [shapeMat EXCEPT ![x] = m]
        /\ shapeDirty' = [shapeDirty EXCEPT ![x] = TRUE]
        /\ UNCHANGED <<shapeList, lightList, camera, sceneDirty, cameraDirty,
                       lightDirty, matDirty, matDep, matTex, texDirty>>

\* Material::SetInputValue with a material or with a texture: the material
\* becomes dirty.
SetInputMaterial ==
    \E m \in UserMaterials, d \in UserMaterials \cup {Null} :
        /\ matDep[m] # d
        /\ Edit
        /\ matDep' = [matDep EXCEPT ![m] = d]
        /\ matDirty' = [matDirty EXCEPT ![m] = TRUE]
        /\ UNCHANGED <<shapeList, lightList, camera, sceneDirty, cameraDirty,
                       shapeDirty, shapeMat, lightDirty, matTex, texDirty>>
SetInputTexture ==
    \E m \in UserMaterials, x \in Textures \cup {Null} :
        /\ matTex[m] # x
        /\ Edit
        /\ matTex' = [matTex EXCEPT ![m] = x]
        /\ matDirty' = [matDirty EXCEPT ![m] = TRUE]
        /\ UNCHANGED <<shapeList, lightList, camera, sceneDirty, cameraDirty,
                       shapeDirty, shapeMat, lightDirty, matDep, texDirty>>

\* One CompileScene(scene, mat_collector, tex_collector) call, start to end.
Compile ==
    \E s \in Scenes : \E env \in CallEnvs(s) :
        \E r \in {CompileScene(s, env)} :
           /\ Alive
           /\ mat_collector' = r.mats
           /\ tex_collector' = r.texs
           /\ m_scene_cache' = r.cache
           /\ m_current_scene' = r.current
           /\ m_api' = r.api
           /\ sceneDirty' = r.sceneDirty
           /\ cameraDirty' = r.cameraDirty
           /\ lightDirty' = r.lightDirty
           /\ shapeDirty' = r.shapeDirty
           /\ matDirty' = r.matDirty
           /\ last' = [scene |-> s, result |-> r.result, log |-> r.log,
                       oob |-> r.oob]
           /\ edited' = FALSE
           /\ UNCHANGED <<shapeList, lightList, camera, shapeMat, matDep, matTex,
                          texDirty, nmut>>

Next ==
    \/ SetDirtyFlag
    \/ SetShapeDirty
    \/ SetLightDirty
    \/ SetCameraDirty
    \/ SetMaterialDirty
    \/ SetTextureDirty
    \/ AttachShape
    \/ DetachShapeFromScene
    \/ AttachLight
    \/ DetachLight
    \/ SetCamera
    \/ SetMaterial
    \/ SetInputMaterial
    \/ SetInputTexture
    \/ Compile

Spec == Init /\ [][Next]_vars


\* ------------------------------------------------------------------ properties
\* The calls of one CompileScene call, as the device and the intersector
\* saw them.
HasOp(log, ops) == \E i \in 1..Len(log) : log[i].op \in ops
HasBufOp(log, op, buf) == \E i \in 1..Len(log) : log[i].op = op /\ log[i].buf = buf
IntersectorOps == {"CreateMesh", "CreateInstance", "DeleteShape", "AttachShape",
                   "DetachShape", "DetachAll", "Commit"}

\* A step that is a CompileScene call on scene s (every other step edits the
\* scene graph and counts as a mutation).
CompileStep(s) == nmut' = nmut /\ last'.scene = s

\* The state right after a CompileScene call on scene s that returned.
Compiled(s) == last.scene = s /\ last.result = "ok" /\ ~edited

\* C1: a compile runs the full rebuild only for a scene that has no cache
\* entry; a cache entry, once inserted, stays in the cache and stays the same
\* record, whatever scene is compiled.
C1_CacheEntryKept ==
    [][/\ \A s \in DOMAIN m_scene_cache :
            /\ s \in DOMAIN m_scene_cache'
            /\ m_scene_cache'[s].uid = m_scene_cache[s].uid
       /\ \A s \in Scenes :
            CompileStep(s) /\ HasOp(last'.log, {"RecompileFull"})
                => s \notin DOMAIN m_scene_cache
       /\ \A s \in Scenes :
            CompileStep(s) /\ last'.result # "hang" => s \in DOMAIN m_scene_cache'
      ]_vars

\* Both scenes are cached and the last call compiled scene 1 from its entry.
C1_Witness ==
    /\ DOMAIN m_scene_cache = Scenes
    /\ Compiled(1)
    /\ last.log # <<>>
    /\ ~HasOp(last.log, {"RecompileFull"})

\* C2: a second compile of the current scene with nothing mutated since the
\* first returned allocates no buffer, creates and deletes no handle, and
\* issues no attach, detach, detach-all or commit.
C2_QuietRecompile ==
    [][\A s \in Scenes :
          Compiled(s) /\ m_current_scene = s /\ CompileStep(s)
              => ~HasOp(last'.log, {"CreateBuffer"} \cup IntersectorOps)
      ]_vars

\* Scene 1 was compiled again from its cache entry, nothing having been
\* mutated since the tracker was built, and the call touched neither the
\* allocator nor the intersector.
C2_Witness ==
    /\ Compiled(1)
    /\ nmut = 0
    /\ ~HasOp(last.log, {"RecompileFull"})
    /\ ~HasOp(last.log, {"CreateBuffer"} \cup IntersectorOps)

\* C3: when a compile of S has returned, S has no dirty flag and its camera,
\* its lights, its shapes and the committed materials are clean.
C3_CleanAfterCompile ==
    \A s \in Scenes :
        Compiled(s) =>
            /\ sceneDirty[s] = {}
            /\ camera[s] => ~cameraDirty[s]
            /\ \A i \in 1..Len(lightList[s]) : ~lightDirty[lightList[s][i]]
            /\ \A i \in 1..Len(shapeList[s]) : ~shapeDirty[shapeList[s][i]]
            /\ \A i \in 1..Len(mat_collector) : ~matDirty[mat_collector[i]]

\* A cached compile has returned after a flag or a dirty bit was set.
C3_Witness ==
    /\ Compiled(1)
    /\ nmut = 1
    /\ HasOp(last.log, {"UpdateShapes", "UpdateLights", "UpdateCamera", "UpdateMaterials"})
    /\ ~HasOp(last.log, {"RecompileFull"})

\* C4: when a compile has returned, the textures of the committed texture
\* collector are clean as well.
C4_TexturesClean ==
    \A s \in Scenes :
        Compiled(s) => \A i \in 1..Len(tex_collector) : ~texDirty[tex_collector[i]]

ShapeBuffers == {"vertices", "normals", "uvs", "indices", "shapes", "materialids"}
LightsClean(s) == \A i \in 1..Len(lightList[s]) : ~lightDirty[lightList[s][i]]
ShapesClean(s) == \A i \in 1..Len(shapeList[s]) : ~shapeDirty[shapeList[s][i]]

\* C5: on a cached scene whose only change is the kShapes flag, a compile
\* that returns has allocated the six shape buffers anew, recreated the
\* handles and reloaded the intersector, and has left the camera buffer, the
\* lights buffer, num_lights and envmapidx as they were.
C5_ShapesFlagOnly ==
    [][\A s \in Scenes :
          /\ CacheFind(s)
          /\ sceneDirty[s] = {"kShapes"}
          /\ camera[s] /\ ~cameraDirty[s]
          /\ LightsClean(s)
          /\ CompileStep(s)
          /\ last'.result = "ok"
          => /\ \A b \in ShapeBuffers : HasBufOp(last'.log, "CreateBuffer", b)
             /\ HasOp(last'.log, {"UpdateIntersector"})
             /\ HasOp(last'.log, {"CreateMesh"})
             /\ HasOp(last'.log, {"DetachAll"})
             /\ HasOp(last'.log, {"Commit"})
             /\ ~HasOp(last'.log, {"UpdateCamera", "UpdateLights"})
             /\ ~HasBufOp(last'.log, "MapBuffer", "camera")
             /\ ~HasBufOp(last'.log, "MapBuffer", "lights")
             /\ m_scene_cache'[s].camera = m_scene_cache[s].camera
             /\ m_scene_cache'[s].lights = m_scene_cache[s].lights
             /\ m_scene_cache'[s].num_lights = m_scene_cache[s].num_lights
             /\ m_scene_cache'[s].envmapidx = m_scene_cache[s].envmapidx
      ]_vars

\* The kShapes flag was set on cached scene 1 and the compile that followed
\* went through the shapes branch.
C5_Witness ==
    /\ Compiled(1)
    /\ nmut = 1
    /\ ~HasOp(last.log, {"RecompileFull"})
    /\ HasOp(last.log, {"UpdateShapes"})
    /\ ~HasOp(last.log, {"UpdateCamera", "UpdateLights"})
    /\ Len(m_api.shapes) > Len(m_scene_cache[1].isect_shapes)

\* The case of C6: scene s is cached, no flag is set, its camera, lights and
\* shapes are clean, and one material of those it collects is dirty.
OneMaterialDirty(s) ==
    /\ CacheFind(s)
    /\ sceneDirty[s] = {}
    /\ camera[s] /\ ~cameraDirty[s]
    /\ LightsClean(s)
    /\ ShapesClean(s)
    /\ ~TraversalHangs(s)
    /\ Cardinality({m \in Range(CollectMaterials(s)) : matDirty[m]}) = 1

\* What C6 says of the buffers: materials rewritten under a new bundle, the
\* shape buffers and the handle lists untouched.
MaterialsOnlyRewritten(s) ==
    /\ HasOp(last'.log, {"UpdateMaterials"})
    /\ HasBufOp(last'.log, "MapBuffer", "materials")
    /\ m_scene_cache'[s].material_bundle = [valid |-> TRUE, items |-> mat_collector']
    /\ \A i \in 1..Len(mat_collector') :
           m_scene_cache'[s].materials[i].src = mat_collector'[i]
    /\ m_scene_cache'[s].vertices = m_scene_cache[s].vertices
    /\ m_scene_cache'[s].indices = m_scene_cache[s].indices
    /\ m_scene_cache'[s].shapes = m_scene_cache[s].shapes
    /\ m_scene_cache'[s].materialids = m_scene_cache[s].materialids
    /\ m_scene_cache'[s].isect_shapes = m_scene_cache[s].isect_shapes
    /\ m_scene_cache'[s].visible_shapes = m_scene_cache[s].visible_shapes

\* C6 as stated: with one collected material dirty and nothing else, a
\* compile rewrites the materials only and makes no intersector call.
C6_MaterialOnly_AsStated ==
    [][\A s \in Scenes :
          OneMaterialDirty(s) /\ CompileStep(s) /\ last'.result = "ok"
              => /\ MaterialsOnlyRewritten(s)
                 /\ ~HasOp(last'.log, IntersectorOps)
      ]_vars

\* C6: with one collected material dirty and nothing else, a compile rewrites
\* the materials only; it makes no intersector call when the scene is the
\* current scene, and when it is not, the only intersector calls are those of
\* the reload (detach-all, attach, commit).
C6_MaterialOnly ==
    [][\A s \in Scenes :
          OneMaterialDirty(s) /\ CompileStep(s) /\ last'.result = "ok"
              => /\ MaterialsOnlyRewritten(s)
                 /\ m_current_scene = s => ~HasOp(last'.log, IntersectorOps)
                 /\ ~HasOp(last'.log, {"CreateMesh", "CreateInstance",
                                       "DeleteShape", "DetachShape"})
      ]_vars

\* A material of cached scene 1 was set dirty and the compile that followed
\* ran the materials pass and no other.
C6_Witness ==
    /\ Compiled(1)
    /\ nmut = 1
    /\ HasOp(last.log, {"UpdateMaterials"})
    /\ ~HasOp(last.log, {"RecompileFull", "UpdateShapes", "UpdateLights",
                         "UpdateCamera"} \cup IntersectorOps)

\* The shapes of scene s in the order of the partition, and the handle
\* records of its compiled record.
PartitionOrder(s) ==
    LET sp == SplitMeshesAndInstances(shapeList[s])
    IN sp.meshes \o sp.excluded_meshes \o sp.instances
RoleAt(s, i) ==
    LET sp == SplitMeshesAndInstances(shapeList[s])
    IN IF i <= Len(sp.meshes) THEN "mesh"
       ELSE IF i <= Len(sp.meshes) + Len(sp.excluded_meshes) THEN "excluded"
       ELSE "instance"
Handle(h) == m_api.shapes[h]

\* C7: after an intersector update, isect_shapes holds one handle for each
\* mesh, excluded mesh and instance, in that order, and the ids of the handles
\* are 1..N in that order, on the first update and on every later one.
C7_HandleIds ==
    \A s \in Scenes :
        Compiled(s) /\ HasOp(last.log, {"UpdateIntersector"}) =>
            LET isect == m_scene_cache[s].isect_shapes
            IN /\ Len(isect) = Len(PartitionOrder(s))
               /\ \A i \in 1..Len(isect) :
                     /\ Handle(isect[i]).id = i
                     /\ Handle(isect[i]).src = PartitionOrder(s)[i]
                     /\ Handle(isect[i]).role = RoleAt(s, i)
                     /\ ~Handle(isect[i]).deleted

\* The handles of scene 1 were rebuilt on the cached path, after handles with
\* the same ids had been made and deleted, and one is an excluded mesh.
C7_Witness ==
    /\ Compiled(1)
    /\ HasOp(last.log, {"UpdateIntersector"})
    /\ ~HasOp(last.log, {"RecompileFull"})
    /\ \E h \in 1..Len(m_api.shapes) : Handle(h).deleted /\ Handle(h).id = 1
    /\ \E i \in 1..Len(m_scene_cache[1].isect_shapes) :
           Handle(m_scene_cache[1].isect_shapes[i]).role = "excluded"

\* C8: in every state, for every cached record, visible_shapes is within
\* isect_shapes and is isect_shapes without the handles of excluded meshes;
\* after an intersector update the visible handles are those of the meshes
\* and the instances of the shape iterator.
C8_VisibleShapes ==
    \A s \in DOMAIN m_scene_cache :
        LET isect == m_scene_cache[s].isect_shapes
            visible == m_scene_cache[s].visible_shapes
        IN /\ Range(visible) \subseteq Range(isect)
           /\ visible = SelectSeq(isect, LAMBDA h : Handle(h).role # "excluded")
           /\ \A i \in 1..Len(isect) :
                 Handle(isect[i]).role = "excluded" => isect[i] \notin Range(visible)
           /\ Compiled(s) /\ HasOp(last.log, {"UpdateIntersector"}) =>
                 {Handle(h).src : h \in Range(visible)}
                     = Range(shapeList[s])

\* Scene 1 is one instance whose base mesh is not in the scene: two handles,
\* one of them visible.
C8_Witness ==
    /\ Compiled(1)
    /\ shapeList[1] = <<3>>
    /\ Len(m_scene_cache[1].isect_shapes) = 2
    /\ Len(m_scene_cache[1].visible_shapes) = 1
    /\ Handle(m_scene_cache[1].visible_shapes[1]).role = "instance"

\* How often element e occurs in buffer buf.
Occurrences(buf, e) == Cardinality({i \in 1..Len(buf) : buf[i] = e})

\* C9: after a shapes pass, the geometry of the base mesh of every instance
\* is in the vertex pool and in the index pool exactly once, and the base
\* mesh has exactly one shape record.
C9_BaseMeshOnce ==
    \A s \in Scenes :
        Compiled(s) /\ HasOp(last.log, {"UpdateShapes"}) =>
            \A x \in Range(shapeList[s]) \cap Instances :
                LET M == BaseShape(x)
                    out == m_scene_cache[s]
                IN /\ \A k \in 1..GetNumVertices(M) :
                         Occurrences(out.vertices, [mesh |-> M, k |-> k]) = 1
                   /\ \A k \in 1..GetNumIndices(M) :
                         Occurrences(out.indices, [mesh |-> M, k |-> k]) = 1
                   /\ Cardinality({i \in 1..Len(out.shapes) : out.shapes[i].src = M}) = 1

\* Scene 1 lists the base mesh itself and two instances of it.
C9_Witness ==
    /\ Compiled(1)
    /\ HasOp(last.log, {"UpdateShapes"})
    /\ {1, 3, 4} \subseteq Range(shapeList[1])
    /\ Occurrences(m_scene_cache[1].vertices, [mesh |-> 1, k |-> 1]) = 1

\* C10: after a shapes pass, the material ids of every shape record lie inside
\* the materialids buffer and are all the same: -1 for an excluded mesh, else
\* the index in the committed material collector of the shape's material, or
\* of the default material when it has none.
C10_MaterialIds ==
    \A s \in Scenes :
        Compiled(s) /\ HasOp(last.log, {"UpdateShapes"}) =>
            LET out == m_scene_cache[s]
            IN /\ Len(out.shapes) = Len(PartitionOrder(s))
               /\ \A i \in 1..Len(out.shapes) :
                    LET R == out.shapes[i]
                        own == shapeMat[R.src]
                        material == IF own = Null THEN m_default_material ELSE own
                    IN /\ R.src = PartitionOrder(s)[i]
                       /\ R.numprims > 0
                       /\ R.start_material_idx >= 0
                       /\ R.start_material_idx + R.numprims <= Len(out.materialids)
                       /\ RoleAt(s, i) # "excluded" => material \in Range(mat_collector)
                       /\ \A j \in 1..R.numprims :
                            out.materialids[R.start_material_idx + j] =
                                IF RoleAt(s, i) = "excluded" THEN -1
                                ELSE PosOf(mat_collector, material) - 1

\* Scene 1 is a mesh without a material, an excluded base mesh and an
\* instance with a material of its own.
C10_Witness ==
    /\ Compiled(1)
    /\ HasOp(last.log, {"UpdateShapes"})
    /\ {-1, 0, 1} \subseteq Range(m_scene_cache[1].materialids)
    /\ m_default_material \in Range(mat_collector)

\* The state right after a CompileScene call on scene s that went through
\* the lights pass to its end, whatever became of the call afterwards.
LightsPassDone(s) ==
    /\ last.scene = s
    /\ ~edited
    /\ HasBufOp(last.log, "UnmapBuffer", "lights")

\* The 0-based positions of the image-based lights of scene s.
IblPositions(s) == {i - 1 : i \in {j \in 1..Len(lightList[s]) : LightKind(lightList[s][j]) = "Ibl"}}

\* C11: after a lights pass, envmapidx is the position of the last
\* image-based light in iteration order, -1 when there is none, and
\* num_lights is the number of lights iterated.
C11_EnvmapIdx ==
    \A s \in Scenes :
        LightsPassDone(s) =>
            /\ m_scene_cache[s].num_lights = Len(lightList[s])
            /\ m_scene_cache[s].envmapidx =
                  IF IblPositions(s) = {} THEN -1
                  ELSE CHOOSE p \in IblPositions(s) : \A q \in IblPositions(s) : q <= p

\* The lights of scene 1 are a point light, an image-based light, a
\* directional light and another image-based light.
C11_Witness ==
    /\ LightsPassDone(1)
    /\ [i \in 1..Len(lightList[1]) |-> LightKind(lightList[1][i])]
          = <<"Point", "Ibl", "Directional", "Ibl">>
    /\ m_scene_cache[1].envmapidx = 3
    /\ m_scene_cache[1].num_lights = 4

\* The calls of a log that change a collector, and the passes.
CollectorOps == {"Collector::Clear", "Collector::Collect", "Collector::Commit"}
CountBufOp(log, op, buf) ==
    Cardinality({i \in 1..Len(log) : log[i].op = op /\ log[i].buf = buf})

\* The record of out.textures a texture index points at, and of out.materials
\* a material index points at (0 when the index is outside the buffer).
TextureAt(out, idx) ==
    IF idx >= 0 /\ idx < Len(out.textures) THEN out.textures[idx + 1].src ELSE Null
MaterialAt(out, idx) ==
    IF idx >= 0 /\ idx < Len(out.materials) THEN out.materials[idx + 1].src ELSE Null

\* C12: in a call, each collector is cleared once and committed once, after
\* its Collect calls and before the first pass, and nothing changes a
\* collector afterwards; so the indices the lights, shapes and materials
\* passes wrote name the very records the materials and textures passes
\* wrote at those positions.
C12_CollectorsStable ==
    \A s \in Scenes :
        last.scene = s /\ ~edited /\ last.result # "hang" =>
            /\ \A c \in {"mat_collector", "tex_collector"} :
                  /\ CountBufOp(last.log, "Collector::Clear", c) = 1
                  /\ CountBufOp(last.log, "Collector::Commit", c) = 1
                  /\ CountBufOp(last.log, "Collector::Collect", c) >= 1
                  /\ \A i, j \in 1..Len(last.log) :
                        /\ last.log[i].buf = c /\ last.log[j].buf = c
                        /\ \/ last.log[i].op = "Collector::Clear"
                              /\ last.log[j].op = "Collector::Collect"
                           \/ last.log[i].op = "Collector::Collect"
                              /\ last.log[j].op = "Collector::Commit"
                        => i < j
            /\ \A i, j \in 1..Len(last.log) :
                  last.log[i].op \in CollectorOps /\ last.log[j].op \notin CollectorOps
                      => i < j
            /\ last.result = "ok" /\ HasOp(last.log, {"RecompileFull"}) =>
                  LET out == m_scene_cache[s]
                  IN /\ \A i \in 1..Len(lightList[s]) :
                           LightKind(lightList[s][i]) = "Ibl" =>
                               TextureAt(out, out.lights[i].tex) = GetTexture(lightList[s][i])
                     /\ \A i \in 1..Len(out.shapes) :
                           RoleAt(s, i) # "excluded" =>
                               MaterialAt(out, out.materialids[out.shapes[i].start_material_idx + 1])
                                   = (IF shapeMat[out.shapes[i].src] = Null
                                      THEN m_default_material
                                      ELSE shapeMat[out.shapes[i].src])
                     /\ \A i \in 1..Len(mat_collector) :
                           LET m == mat_collector[i]
                               R == out.materials[i]
                           IN /\ R.src = m
                              /\ matDep[m] # Null => MaterialAt(out, R.brdfbaseidx) = matDep[m]
                              /\ matTex[m] # Null =>
                                    TextureAt(out, IF matDep[m] = Null THEN R.kxmapidx
                                                   ELSE R.nsmapidx) = matTex[m]

\* Scene 1 was compiled for the first time with image-based lights and a
\* textured material: every pass ran and used indices of both collectors.
C12_Witness ==
    /\ Compiled(1)
    /\ HasOp(last.log, {"RecompileFull"})
    /\ Len(tex_collector) = 2
    /\ \E i \in 1..Len(lightList[1]) : LightKind(lightList[1][i]) = "Ibl"
    /\ \E i \in 1..Len(mat_collector) : matTex[mat_collector[i]] # Null
    /\ HasOp(last.log, {"UpdateTextures"})

\* C13: the shape -> materials expansion of a call ends, whatever the
\* material dependency graph, cyclic ones included.
C13_TraversalEnds ==
    \A s \in Scenes :
        last.scene = s /\ ~edited => last.result # "hang"

\* C14: a compile of a scene that has shapes and lights but no camera fails
\* with "No camera in the scene", on the first compile as on the cached
\* path, and leaves the cache as it was.
C14_NoCamera ==
    [][\A s \in Scenes :
          /\ ~camera[s]
          /\ shapeList[s] # <<>>
          /\ lightList[s] # <<>>
          /\ CompileStep(s)
          /\ last'.result # "hang"
          => /\ last'.result = "No camera in the scene"
             /\ m_scene_cache' = m_scene_cache
      ]_vars

\* C15: a compile of a scene with a camera and no lights fails with "No
\* lights in the scene", and one of a scene with a camera and lights and no
\* shapes fails with "No shapes in the scene", on the first compile as on the
\* cached path.
C15_NoLightsNoShapes ==
    [][\A s \in Scenes :
          camera[s] /\ CompileStep(s) /\ last'.result # "hang"
          => /\ lightList[s] = <<>> => last'.result = "No lights in the scene"
             /\ lightList[s] # <<>> /\ shapeList[s] = <<>>
                   => last'.result = "No shapes in the scene"
      ]_vars

\* The dirty bits a compile can clear, and the parts of a record the camera
\* pass and the lights pass write.
DirtyBits == <<sceneDirty, cameraDirty, lightDirty, shapeDirty, matDirty>>
SameButCamera(a, b) == [a EXCEPT !.camera = b.camera, !.camera_type = b.camera_type] = b
SameButCameraAndLights(a, b) ==
    [a EXCEPT !.camera = b.camera, !.camera_type = b.camera_type,
              !.lights = b.lights, !.num_lights = b.num_lights,
              !.envmapidx = b.envmapidx] = b

\* C16 as stated: a failed compile of a cached scene leaves the entry and the
\* dirty bits as they were before the call.
C16_FailureLeavesEntry_AsStated ==
    [][\A s \in Scenes :
          CacheFind(s) /\ CompileStep(s) /\ last'.result \notin {"ok", "hang"}
              => /\ m_scene_cache'[s] = m_scene_cache[s]
                 /\ DirtyBits' = DirtyBits
      ]_vars

\* C16: a failed compile of a cached scene failed in one of the three checks
\* and leaves the entry as it was when that check was made: nothing changed
\* when the camera is missing; at most the camera buffer rewritten (and the
\* camera's dirty bit cleared) by a camera pass of this call when the lights
\* are missing; at most the camera and the lights rewritten (and their dirty
\* bits cleared) by passes of this call when the shapes are missing.  No
\* shape or material buffer, bundle, handle list, scene flag, shape or
\* material dirty bit, nor the intersector or the current scene changes.
C16_FailureLeavesEntry ==
    [][\A s \in Scenes :
          CacheFind(s) /\ CompileStep(s) /\ last'.result \notin {"ok", "hang"}
              => /\ last'.result \in {"No camera in the scene", "No lights in the scene",
                                      "No shapes in the scene"}
                 /\ <<sceneDirty, shapeDirty, matDirty, m_api, m_current_scene>>'
                        = <<sceneDirty, shapeDirty, matDirty, m_api, m_current_scene>>
                 /\ last'.result = "No camera in the scene" =>
                        /\ m_scene_cache'[s] = m_scene_cache[s]
                        /\ DirtyBits' = DirtyBits
                 /\ last'.result = "No lights in the scene" =>
                        /\ SameButCamera(m_scene_cache'[s], m_scene_cache[s])
                        /\ lightDirty' = lightDirty
                        /\ ~HasOp(last'.log, {"UpdateCamera"}) =>
                               m_scene_cache'[s] = m_scene_cache[s] /\ cameraDirty' = cameraDirty
                 /\ last'.result = "No shapes in the scene" =>
                        /\ SameButCameraAndLights(m_scene_cache'[s], m_scene_cache[s])
                        /\ ~HasOp(last'.log, {"UpdateCamera", "UpdateLights"}) =>
                               m_scene_cache'[s] = m_scene_cache[s] /\ DirtyBits' = DirtyBits
      ]_vars

\* The camera of cached scene 1 was dirty and the scene had no lights: the
\* call rewrote the camera and then failed.
C16_Witness ==
    /\ last.scene = 1
    /\ ~edited
    /\ last.result = "No lights in the scene"
    /\ HasOp(last.log, {"UpdateCamera"})
    /\ ~cameraDirty[1]

\* The handles of the record of scene a that the intersector holds deleted.
DeletedHandles(api, a) ==
    {h \in Range(m_scene_cache[a].isect_shapes) : api.shapes[h].deleted}

\* C17: a compile of scene b, whatever its outcome, leaves the cached record
\* of every other scene a as it was (buffers, bundles, isect_shapes,
\* visible_shapes), deletes none of a's handles and creates no record for a;
\* when it fails, the attached handles, the committed handles and the
\* current scene are what they were before the call.
C17_OtherSceneUntouched ==
    [][\A b \in Scenes :
          CompileStep(b) =>
              /\ \A a \in Scenes \ {b} :
                    IF CacheFind(a)
                    THEN /\ a \in DOMAIN m_scene_cache'
                         /\ m_scene_cache'[a] = m_scene_cache[a]
                         /\ DeletedHandles(m_api', a) = DeletedHandles(m_api, a)
                    ELSE a \notin DOMAIN m_scene_cache'
              /\ last'.result # "ok" =>
                    /\ m_api'.attached = m_api.attached
                    /\ m_api'.committed = m_api.committed
                    /\ m_api'.uncommitted = m_api.uncommitted
                    /\ m_current_scene' = m_current_scene
      ]_vars

\* Scene 2 is compiled and current, its handles attached; then a compile of
\* scene 1 failed.
C17_Witness ==
    /\ last.scene = 1
    /\ ~edited
    /\ last.result \notin {"ok", "hang", "crash", "none"}
    /\ CacheFind(2)
    /\ m_current_scene = 2
    /\ m_scene_cache[2].visible_shapes # <<>>
    /\ m_api.attached = Range(m_scene_cache[2].visible_shapes)

\* The handles the intersector holds deleted, and the handles some record
\* of the cache still names.
Deleted(api) == {h \in 1..Len(api.shapes) : api.shapes[h].deleted}
Recorded(cache) ==
    UNION {Range(cache[s].isect_shapes) \cup Range(cache[s].visible_shapes) :
           s \in DOMAIN cache}
\* Event i of the log is preceded by an event op on the same handle.
Preceded(log, i, op) == \E j \in 1..(i - 1) : log[j].op = op /\ log[j].n = log[i].n

\* C18: every handle a compile of scene s deletes was in isect_shapes of s's
\* own record, its DeleteShape follows a DetachShape of the same handle in
\* the same call and no AttachShape of it follows; after every step no
\* deleted handle is attached, committed or named by any record.
C18_DeleteAfterDetach ==
    [][/\ \A s \in Scenes :
             CompileStep(s) =>
                 /\ \A h \in Deleted(m_api') \ Deleted(m_api) :
                        /\ CacheFind(s)
                        /\ h \in Range(m_scene_cache[s].isect_shapes)
                 /\ \A i \in 1..Len(last'.log) :
                        /\ last'.log[i].op = "DeleteShape" =>
                               /\ Preceded(last'.log, i, "DetachShape")
                               /\ last'.log[i].n \in Deleted(m_api') \ Deleted(m_api)
                        /\ last'.log[i].op = "AttachShape" =>
                               ~Preceded(last'.log, i, "DeleteShape")
       /\ Deleted(m_api') \cap (m_api'.attached \cup m_api'.committed) = {}
       /\ Deleted(m_api') \cap Recorded(m_scene_cache') = {}
       /\ Deleted(m_api) \subseteq Deleted(m_api')
      ]_vars

\* Scene 1 was rebuilt while its handles were attached: they were detached,
\* deleted and replaced, and the new ones are attached.
C18_Witness ==
    /\ last.scene = 1
    /\ ~edited
    /\ last.result = "ok"
    /\ HasOp(last.log, {"DeleteShape"})
    /\ Deleted(m_api) # {}
    /\ m_api.attached = Range(m_scene_cache[1].visible_shapes)
    /\ m_api.attached # {}

\* The positions in the log of the calls that change what is attached.
AttachChanges(log) ==
    {i \in 1..Len(log) : log[i].op \in {"AttachShape", "DetachShape", "DetachAll"}}

\* C19: after every successful compile of scene s the handles attached to the
\* intersector are exactly s's visible_shapes, the current scene is s, the
\* attached set is the committed one, and every attach or detach of the call
\* is followed by a Commit in the same call.
C19_AttachedIsVisible ==
    \A s \in Scenes :
        Compiled(s) =>
            /\ m_api.attached = Range(m_scene_cache[s].visible_shapes)
            /\ m_current_scene = s
            /\ ~m_api.uncommitted
            /\ m_api.committed = m_api.attached
            /\ \A i \in AttachChanges(last.log) :
                   \E j \in (i + 1)..Len(last.log) : last.log[j].op = "Commit"

\* Scene 2 was current when scene 1, cached and with a changed shape, was
\* compiled again: its handles were replaced, attached and committed.
C19_Witness ==
    /\ Compiled(1)
    /\ CacheFind(2)
    /\ HasOp(last.log, {"DeleteShape"})
    /\ CountBufOp(last.log, "DetachAll", "") = 2
    /\ m_api.attached # {}

\* The base meshes of the instances of scene s that the scene does not list.
ExcludedMeshes(s) == Range(SplitMeshesAndInstances(shapeList[s]).excluded_meshes)
\* Nothing of scene s is dirty but excluded meshes.
OnlyExcludedDirty(s) ==
    /\ CacheFind(s)
    /\ sceneDirty[s] = {}
    /\ m_current_scene = s
    /\ \E m \in ExcludedMeshes(s) : shapeDirty[m]
    /\ ~ShapesChanged(s, [shapeDirty |-> shapeDirty])
    /\ ~LightsChanged(s, [lightDirty |-> lightDirty])
    /\ ~cameraDirty[s]
    /\ \A m \in Materials : ~matDirty[m]

\* C20: a compile of a cached scene in which only an excluded mesh is dirty
\* runs the shapes pass and the intersector update and leaves the excluded
\* mesh clean.
C20_ExcludedMeshRebuilt ==
    [][\A s \in Scenes :
          OnlyExcludedDirty(s) /\ CompileStep(s) /\ last'.result = "ok"
              => /\ HasOp(last'.log, {"UpdateShapes"})
                 /\ HasOp(last'.log, {"UpdateIntersector"})
                 /\ \A m \in ExcludedMeshes(s) : ~shapeDirty'[m]
      ]_vars

\* The handles of role r in the record of scene s, and the shapes they were
\* made from.
HandlesOf(s, r) == {h \in Range(m_scene_cache[s].isect_shapes) : Handle(h).role = r}
SourcesOf(s, r) == {Handle(h).src : h \in HandlesOf(s, r)}
NoRepeat(seq) == Cardinality(Range(seq)) = Len(seq)

\* C21: for every content of the shape iterator the partition gives three
\* pairwise disjoint sets without repetition: meshes is the non-instance
\* shapes of the iterator, instances is its instance shapes, excluded_meshes
\* is the base meshes of those instances that are not in meshes, each once;
\* an intersector update makes one handle for each member of each set.
C21_Partition ==
    \A s \in Scenes :
        LET sp == SplitMeshesAndInstances(shapeList[s])
            inScene == Range(shapeList[s])
            bases == {BaseShape(i) : i \in inScene \cap Instances}
        IN /\ Range(sp.meshes) = inScene \cap Meshes
           /\ Range(sp.instances) = inScene \cap Instances
           /\ Range(sp.excluded_meshes) = bases \ Range(sp.meshes)
           /\ Range(sp.meshes) \cap Range(sp.instances) = {}
           /\ Range(sp.meshes) \cap Range(sp.excluded_meshes) = {}
           /\ Range(sp.instances) \cap Range(sp.excluded_meshes) = {}
           /\ NoRepeat(sp.meshes) /\ NoRepeat(sp.instances) /\ NoRepeat(sp.excluded_meshes)
           /\ Compiled(s) /\ HasOp(last.log, {"UpdateIntersector"}) =>
                 /\ SourcesOf(s, "mesh") = inScene \cap Meshes
                 /\ SourcesOf(s, "instance") = inScene \cap Instances
                 /\ SourcesOf(s, "excluded") = bases \ (inScene \cap Meshes)
                 /\ Cardinality(HandlesOf(s, "excluded"))
                        = Cardinality(bases \ (inScene \cap Meshes))
                 /\ Len(m_scene_cache[s].isect_shapes)
                        = Cardinality(inScene \cup bases)

\* Scene 1 holds two instances of one base mesh that the scene does not
\* list: the rebuild made three handles, one of them for the base mesh.
C21_Witness ==
    /\ Compiled(1)
    /\ HasOp(last.log, {"UpdateIntersector"})
    /\ Range(shapeList[1]) = {3, 4}
    /\ Len(m_scene_cache[1].isect_shapes) = 3
    /\ SourcesOf(1, "excluded") = {1}

\* The meshes of scene s in the order its shape iterator yields them.
MeshesInIteratorOrder(s) == SelectSeq(shapeList[s], LAMBDA x : x \in Meshes)

\* C22: after a compile that rebuilt shapes and handles, the k-th mesh the
\* shape iterator yields has the shape record at index k-1 and the handle
\* with id k, whatever the addresses of the shapes.
C22_IteratorOrder ==
    \A s \in Scenes :
        Compiled(s) /\ HasOp(last.log, {"UpdateShapes"})
                    /\ HasOp(last.log, {"UpdateIntersector"}) =>
            \A k \in 1..Len(MeshesInIteratorOrder(s)) :
                /\ m_scene_cache[s].shapes[k].src = MeshesInIteratorOrder(s)[k]
                /\ Handle(m_scene_cache[s].isect_shapes[k]).src = MeshesInIteratorOrder(s)[k]
                /\ Handle(m_scene_cache[s].isect_shapes[k]).id = k

\* C23: after every successful compile of scene s the handles and the shape
\* records of its record are aligned: there are as many of the one as of the
\* other, the handle at position k of isect_shapes has id k and was made from
\* the shape that record k-1 of the shapes buffer was written for, and every
\* instance handle refers to a live handle of the same record that was made
\* from the instance's base mesh.
C23_RecordsAndHandles ==
    \A s \in Scenes :
        Compiled(s) =>
            LET isect == m_scene_cache[s].isect_shapes
                shapes == m_scene_cache[s].shapes
            IN /\ Len(isect) = Len(shapes)
               /\ \A k \in 1..Len(isect) :
                     /\ Handle(isect[k]).id = k
                     /\ shapes[k].src = Handle(isect[k]).src
                     /\ Handle(isect[k]).kind = "CreateInstance" =>
                            /\ Handle(isect[k]).base \in Range(isect)
                            /\ Handle(Handle(isect[k]).base).kind = "CreateMesh"
                            /\ Handle(Handle(isect[k]).base).src
                                   = BaseShape(Handle(isect[k]).src)
                            /\ ~Handle(Handle(isect[k]).base).deleted

\* Scene 1 was rebuilt from its cache entry and has an instance among its
\* handles.
C23_Witness ==
    /\ Compiled(1)
    /\ HasOp(last.log, {"UpdateShapes"})
    /\ ~HasOp(last.log, {"RecompileFull"})
    /\ Deleted(m_api) # {}
    /\ \E k \in 1..Len(m_scene_cache[1].isect_shapes) :
           /\ Handle(m_scene_cache[1].isect_shapes[k]).kind = "CreateInstance"
           /\ m_scene_cache[1].shapes[k].src \in Instances

\* The records of the lights buffer of scene s that are in use.
LightRecords(s) == SubSeq(m_scene_cache[s].lights, 1, m_scene_cache[s].num_lights)
\* Index idx (0-based) of the shapes buffer of scene s holds the record of shape x.
ShapeRecordAt(s, idx, x) ==
    /\ idx >= 0
    /\ idx < Len(m_scene_cache[s].shapes)
    /\ m_scene_cache[s].shapes[idx + 1].src = x

\* C24: after every successful compile of scene s, the shapeidx of each Area
\* light record is the index, in the shapes buffer of the same record, of the
\* shape record of the light's shape (when the shape has one).
C24_AreaLightShape ==
    \A s \in Scenes :
        Compiled(s) =>
            \A i \in 1..Len(LightRecords(s)) :
                LET rec == LightRecords(s)[i]
                IN rec.type = "Area"
                   /\ (\E k \in 1..Len(m_scene_cache[s].shapes) :
                          m_scene_cache[s].shapes[k].src = GetShape(rec.src))
                       => ShapeRecordAt(s, rec.shapeidx, GetShape(rec.src))

\* Index idx (0-based) of the materials buffer of scene s holds the record of
\* material m.
MaterialRecordAt(s, idx, m) ==
    /\ idx >= 0
    /\ idx < Len(m_scene_cache[s].materials)
    /\ m_scene_cache[s].materials[idx + 1].src = m
\* The positions (1-based) of the materialids buffer that shape record rec owns.
MaterialIdRegion(rec) == (rec.start_material_idx + 1)..(rec.start_material_idx + rec.numprims)

\* C25: after every successful compile of scene s, every materialids entry
\* of a mesh or an instance is the index in the materials buffer of the
\* record of the shape's material (or of the default material), and the
\* brdfbaseidx and brdftopidx of every compound material record are the
\* index of the record of the material it depends on.
C25_MaterialIndices ==
    \A s \in Scenes :
        Compiled(s) =>
            /\ \A k \in 1..Len(m_scene_cache[s].shapes) :
                  RoleAt(s, k) # "excluded" =>
                      \A j \in MaterialIdRegion(m_scene_cache[s].shapes[k]) :
                          /\ j <= Len(m_scene_cache[s].materialids)
                          /\ MaterialRecordAt(s, m_scene_cache[s].materialids[j],
                                 MaterialOrDefault(m_scene_cache[s].shapes[k].src))
            /\ \A i \in 1..Len(m_scene_cache[s].material_bundle.items) :
                  LET rec == m_scene_cache[s].materials[i]
                  IN rec.type = "kMix" =>
                        /\ MaterialRecordAt(s, rec.brdfbaseidx, matDep[rec.src])
                        /\ MaterialRecordAt(s, rec.brdftopidx, matDep[rec.src])

\* Index idx (0-based) is within the textures the record of scene s
\* currently holds and is the record of texture t.
TextureRecordAt(s, idx, t) ==
    /\ idx >= 0
    /\ idx < Len(m_scene_cache[s].texture_bundle.items)
    /\ idx < Len(m_scene_cache[s].textures)
    /\ m_scene_cache[s].textures[idx + 1].src = t
\* A texture index field: -1 for no texture, else the texture's position.
TextureIndexOk(s, idx, t) ==
    IF t = Null THEN idx = -1 ELSE TextureRecordAt(s, idx, t)

\* C26: after every successful compile of scene s, the texture index of every
\* material record (kxmapidx of a single material, nsmapidx of a compound
\* one) and tex and texdiffuse of every image-based light record are the
\* position, among the textures the record currently holds, of the texture
\* the material or the light names.
C26_TextureIndices ==
    \A s \in Scenes :
        Compiled(s) =>
            /\ \A i \in 1..Len(m_scene_cache[s].material_bundle.items) :
                  LET rec == m_scene_cache[s].materials[i]
                  IN /\ rec.type = "kLambert" =>
                            TextureIndexOk(s, rec.kxmapidx, matTex[rec.src])
                     /\ rec.type = "kMix" =>
                            TextureIndexOk(s, rec.nsmapidx, matTex[rec.src])
            /\ \A i \in 1..Len(LightRecords(s)) :
                  LET rec == LightRecords(s)[i]
                  IN rec.type = "Ibl" =>
                        /\ TextureRecordAt(s, rec.tex, GetTexture(rec.src))
                        /\ TextureRecordAt(s, rec.texdiffuse, GetTexture(rec.src))

\* The record went through a full rebuild that reached its end: the camera
\* buffer and the volumes buffer, its first and its last allocation, exist.
FullyRebuilt(rec) == rec.camera # <<>> /\ rec.volumes # <<>>

\* C27: a compile of scene s that returns through the cached path works on a
\* record that a full rebuild has completed; a compile that follows a failed
\* first compile of s runs the full rebuild again.
C27_CachedIsComplete ==
    [][\A s \in Scenes :
          CompileStep(s) /\ last'.result = "ok"
                         /\ ~HasOp(last'.log, {"RecompileFull"})
              => /\ CacheFind(s)
                 /\ FullyRebuilt(m_scene_cache[s])
      ]_vars

\* The steps of a first compile, in the order the log shows them: the start
\* of the full rebuild, its two own allocations, its six passes, and the
\* start of the intersector reload.
StepOf(e) ==
    CASE e.op = "CreateBuffer" /\ e.buf \in {"camera", "volumes"} -> <<e.op, e.buf, e.n>>
      [] e.op \in {"RecompileFull", "UpdateCamera", "UpdateLights", "UpdateShapes",
                   "UpdateMaterials", "UpdateTextures", "UpdateIntersector",
                   "DetachAll"} -> <<e.op>>
      [] OTHER -> <<>>
StepsOf(log) ==
    LET marked == SelectSeq(log, LAMBDA e : StepOf(e) # <<>>)
    IN [i \in 1..Len(marked) |-> StepOf(marked[i])]
FullRebuildSteps ==
    << <<"RecompileFull">>, <<"CreateBuffer", "camera", 1>>, <<"UpdateCamera">>,
       <<"UpdateLights">>, <<"UpdateShapes">>, <<"UpdateMaterials">>,
       <<"UpdateTextures">>, <<"UpdateIntersector">>,
       <<"CreateBuffer", "volumes", 1>>, <<"DetachAll">> >>
IsPrefix(a, b) == Len(a) <= Len(b) /\ a = SubSeq(b, 1, Len(a))

\* C28: a call that runs the full rebuild starts it with the deletion of the
\* record's handles (none is left in isect_shapes before any pass), then
\* creates the camera buffer of length 1, runs camera, lights, shapes,
\* materials, textures and the intersector update in this order, creates the
\* volumes buffer of length 1 and writes the default volume, and only then
\* reloads the intersector; a call that fails stops somewhere in this order.
C28_FullRebuildOrder ==
    \A s \in Scenes :
        last.scene = s /\ ~edited /\ HasOp(last.log, {"RecompileFull"}) =>
            /\ IsPrefix(StepsOf(last.log), FullRebuildSteps)
            /\ \A i \in 1..Len(last.log) :
                  last.log[i].op = "DeleteShape" =>
                      \A j \in 1..(i - 1) : StepOf(last.log[j]) \in {<<>>, <<"RecompileFull">>}
            /\ last.result = "ok" =>
                  /\ StepsOf(last.log) = FullRebuildSteps
                  /\ m_scene_cache[s].volumes = <<[type |-> 1]>>
                  /\ Len(m_scene_cache[s].camera) = 1

\* The first compile of scene 1 ran the whole full rebuild and made handles.
C28_Witness ==
    /\ Compiled(1)
    /\ HasOp(last.log, {"RecompileFull"})
    /\ HasOp(last.log, {"CreateInstance"})
    /\ StepsOf(last.log) = FullRebuildSteps

\* The state after a call on scene s that ran the shapes pass to its end.
ShapesPassDone(s) ==
    /\ last.scene = s
    /\ ~edited
    /\ HasBufOp(last.log, "UnmapBuffer", "shapes")
\* Where the material range of shape record k ends.
RegionEnd(rec) == rec.start_material_idx + rec.numprims

\* C29: after a shapes pass on scene s, every instance record has numprims,
\* startvtx and startidx of the record of its base mesh in the same buffer
\* and a start_material_idx of its own; the material ranges of the shape
\* records start at 0, each starts where the one before it ends, and the
\* last ends at the end of the materialids buffer.
C29_InstanceRecords ==
    \A s \in Scenes :
        ShapesPassDone(s) =>
            LET shapes == m_scene_cache[s].shapes
            IN /\ \A k \in 1..Len(shapes) :
                     shapes[k].src \in Instances =>
                         \E b \in 1..Len(shapes) :
                             /\ shapes[b].src = BaseShape(shapes[k].src)
                             /\ shapes[k].numprims = shapes[b].numprims
                             /\ shapes[k].startvtx = shapes[b].startvtx
                             /\ shapes[k].startidx = shapes[b].startidx
                             /\ shapes[k].start_material_idx # shapes[b].start_material_idx
               /\ \A k \in 1..Len(shapes) :
                     /\ shapes[k].numprims > 0
                     /\ shapes[k].start_material_idx
                            = IF k = 1 THEN 0 ELSE RegionEnd(shapes[k - 1])
               /\ shapes # <<>> =>
                     RegionEnd(shapes[Len(shapes)]) = Len(m_scene_cache[s].materialids)

\* Scene 1 has two meshes and two instances of the first: four records,
\* the instances sharing the first mesh's vertex and index ranges.
C29_Witness ==
    /\ ShapesPassDone(1)
    /\ Len(m_scene_cache[1].shapes) = 4
    /\ m_scene_cache[1].shapes[3].src \in Instances
    /\ m_scene_cache[1].shapes[4].src \in Instances
    /\ m_scene_cache[1].shapes[4].start_material_idx = 4
    /\ Len(m_scene_cache[1].materialids) = 5

\* The shape records of scene s that own vertex and index ranges: those of
\* the meshes and the excluded meshes, the first records of the buffer.
StoredRecords(s) ==
    SelectSeq(m_scene_cache[s].shapes, LAMBDA rec : rec.src \in Meshes)
\* The sum of f over the sources of the first n records of recs.
RECURSIVE SumBefore(_, _, _)
SumBefore(recs, n, f) ==
    IF n = 0 THEN 0 ELSE f[recs[n].src] + SumBefore(recs, n - 1, f)

\* C30: after a shapes pass on scene s the vertices, normals, uvs and indices
\* buffers have exactly the summed element counts of the meshes and excluded
\* meshes that have a record; the j-th of those records is the j-th record
\* of the buffer and starts, in vertices, indices and materialids, at the
\* summed vertex counts, index counts and primitive counts of the records
\* before it; no write of the call went past the end of a buffer.
C30_PoolSizes ==
    \A s \in Scenes :
        ShapesPassDone(s) =>
            LET rec == m_scene_cache[s]
                stored == StoredRecords(s)
                n == Len(stored)
            IN /\ Len(rec.vertices) = SumBefore(stored, n, [m \in Meshes |-> GetNumVertices(m)])
               /\ Len(rec.normals) = SumBefore(stored, n, [m \in Meshes |-> GetNumNormals(m)])
               /\ Len(rec.uvs) = SumBefore(stored, n, [m \in Meshes |-> GetNumUVs(m)])
               /\ Len(rec.indices) = SumBefore(stored, n, [m \in Meshes |-> GetNumIndices(m)])
               /\ \A j \in 1..n :
                     /\ rec.shapes[j] = stored[j]
                     /\ stored[j].startvtx
                            = SumBefore(stored, j - 1, [m \in Meshes |-> GetNumVertices(m)])
                     /\ stored[j].startidx
                            = SumBefore(stored, j - 1, [m \in Meshes |-> GetNumIndices(m)])
                     /\ stored[j].start_material_idx
                            = SumBefore(stored, j - 1, [m \in Meshes |-> GetNumIndices(m) \div 3])
                     /\ stored[j].numprims = GetNumIndices(stored[j].src) \div 3
               /\ Range(shapeList[s]) \cap Meshes \subseteq {stored[j].src : j \in 1..n}
               /\ \A x \in Range(shapeList[s]) \cap Instances :
                     BaseShape(x) \in {stored[j].src : j \in 1..n}
               /\ ~last.oob

\* Scene 1 is a mesh and an instance of another mesh that the scene does
\* not list: both meshes are in the pools, the instance adds nothing.
C30_Witness ==
    /\ ShapesPassDone(1)
    /\ Len(StoredRecords(1)) = 2
    /\ Range(shapeList[1]) \cap Meshes = {2}
    /\ Range(shapeList[1]) \cap Instances # {}
    /\ Len(m_scene_cache[1].vertices) = 3
    /\ Len(m_scene_cache[1].indices) = 9

\* The byte sizes of the textures, and the bytes of the first n textures of
\* a collector order.
SizeInBytes == [t \in Textures |-> GetSizeInBytes(t)]
BytesBefore(items, k) == Sum(SubSeq(items, 1, k - 1), SizeInBytes)
TotalBytes(items) == Sum(items, SizeInBytes)
\* The record rec holds the headers and the payloads of items, each payload
\* at the offset its header names.
TexturesLaidOut(rec, items) ==
    /\ items # <<>>
    /\ Len(items) <= Len(rec.textures)
    /\ TotalBytes(items) <= Len(rec.texturedata)
    /\ \A k \in 1..Len(items) :
          /\ rec.textures[k].src = items[k]
          /\ rec.textures[k].dataoffset = BytesBefore(items, k)
          /\ \A j \in 1..GetSizeInBytes(items[k]) :
                rec.texturedata[BytesBefore(items, k) + j] = [tex |-> items[k], k |-> j]
\* The state after a call on scene s that ran the textures pass, with at
\* least one texture, to its end.
TexturesPassDone(s) ==
    /\ last.scene = s
    /\ ~edited
    /\ HasBufOp(last.log, "UnmapBuffer", "texturedata")
\* The length of the texturedata buffer of scene s, 0 for a scene not cached.
DataLength(cache, s) == IF s \in DOMAIN cache THEN Len(cache[s].texturedata) ELSE 0

\* C31 as stated: after a textures pass with at least one texture the headers
\* hold the cumulative offsets, the payloads lie at them, and the texturedata
\* buffer is exactly as long as the byte sum of the collected textures.
C31_TextureData_AsStated ==
    \A s \in Scenes :
        TexturesPassDone(s) =>
            /\ TexturesLaidOut(m_scene_cache[s], tex_collector)
            /\ Len(m_scene_cache[s].texturedata) = TotalBytes(tex_collector)

\* C31: a textures pass with at least one texture leaves the header of the
\* k-th texture with the byte sum of the textures before it, each payload at
\* that offset (so no two overlap), and a texturedata buffer that is the
\* byte sum long when that is more than it was before the pass, and as long
\* as it was otherwise: the buffer only grows.
C31_TextureData ==
    [][\A s \in Scenes :
          CompileStep(s) /\ HasBufOp(last'.log, "UnmapBuffer", "texturedata")
              => /\ TexturesLaidOut(m_scene_cache'[s], tex_collector')
                 /\ Len(m_scene_cache'[s].texturedata)
                        = Max(TotalBytes(tex_collector'), DataLength(m_scene_cache, s))
                 /\ ~last'.oob
      ]_vars

\* The textures of scene 1 take fewer bytes than at the pass before: the
\* buffer is longer than their sum.
C31_Witness ==
    /\ TexturesPassDone(1)
    /\ tex_collector # <<>>
    /\ Len(m_scene_cache[1].texturedata) > TotalBytes(tex_collector)

\* The length of the lights buffer of scene s, 0 for a scene not cached.
LightsLength(cache, s) == IF s \in DOMAIN cache THEN Len(cache[s].lights) ELSE 0

\* C32: the lights buffer of a record never gets shorter; a call that runs
\* the lights pass allocates the buffer exactly when the scene has more
\* lights than the buffer is long, and then with that many elements; when the
\* pass is through, num_lights is the number of lights of the scene, each
\* written in its turn, and is at most the length of the buffer.
C32_LightsBuffer ==
    [][\A s \in Scenes :
          /\ s \in DOMAIN m_scene_cache' =>
                Len(m_scene_cache'[s].lights) >= LightsLength(m_scene_cache, s)
          /\ CompileStep(s) /\ HasOp(last'.log, {"UpdateLights"}) =>
                /\ HasBufOp(last'.log, "CreateBuffer", "lights")
                       <=> Len(lightList[s]) > LightsLength(m_scene_cache, s)
                /\ Len(m_scene_cache'[s].lights)
                       = Max(Len(lightList[s]), LightsLength(m_scene_cache, s))
                /\ HasBufOp(last'.log, "UnmapBuffer", "lights") =>
                       /\ m_scene_cache'[s].num_lights = Len(lightList[s])
                       /\ m_scene_cache'[s].num_lights <= Len(m_scene_cache'[s].lights)
                       /\ \A i \in 1..Len(lightList[s]) :
                              m_scene_cache'[s].lights[i].src = lightList[s][i]
      ]_vars

\* The lights pass has run on scene 1 after a light was detached: fewer
\* lights than the buffer is long, the last slot stale.
C32_Witness ==
    /\ LightsPassDone(1)
    /\ ~HasOp(last.log, {"RecompileFull"})
    /\ ~HasBufOp(last.log, "CreateBuffer", "lights")
    /\ m_scene_cache[1].num_lights = 3
    /\ Len(m_scene_cache[1].lights) = 4

\* The buffer each writer pass unmaps last.
LastUnmapped == {"camera", "lights", "shapes", "materials", "texturedata"}
\* Event i of the log is a map that the call waits for: a Wait follows it
\* with nothing but further maps of the same batch in between.
MapAwaited(log, i) ==
    \E j \in (i + 1)..Len(log) :
        /\ log[j].op = "Wait"
        /\ \A k \in (i + 1)..(j - 1) : log[k].op = "MapBuffer"
\* Event i of the log is an unmap that the call waits for.
UnmapAwaited(log, i) == i < Len(log) /\ log[i + 1].op = "Wait"

\* C33: in every writer pass of a call the map is waited for before the
\* first write, and the last unmap of the pass is waited for before the
\* pass returns.
C33_WaitsAtBoundaries ==
    \A s \in Scenes :
        last.scene = s /\ ~edited =>
            \A i \in 1..Len(last.log) :
                /\ last.log[i].op = "MapBuffer" /\ (last.result = "ok") =>
                       MapAwaited(last.log, i)
                /\ last.log[i].op = "UnmapBuffer" /\ last.log[i].buf \in LastUnmapped =>
                       UnmapAwaited(last.log, i)

\* The events with which a pass, the full rebuild or the reload starts.
PassStarts == {"RecompileFull", "UpdateCamera", "UpdateLights", "UpdateShapes",
               "UpdateMaterials", "UpdateTextures", "UpdateIntersector", "DetachAll"}
\* Event i of the log is a map that the device carried out (a refused map is
\* the last event of a call that ended in a device error).
Mapped(i) ==
    /\ last.log[i].op = "MapBuffer"
    /\ ~(i = Len(last.log) /\ last.result = "DeviceError")
\* Event k of the log creates, maps or unmaps the buffer of event i.
SameBuffer(k, i) ==
    /\ last.log[k].op \in {"CreateBuffer", "MapBuffer", "UnmapBuffer"}
    /\ last.log[k].buf = last.log[i].buf
\* Events i < j are a map and the unmap that ends it: same buffer, and in
\* between no pass starts and the buffer is not created, mapped or unmapped.
Lease(i, j) ==
    /\ Mapped(i)
    /\ last.log[j].op = "UnmapBuffer"
    /\ last.log[j].buf = last.log[i].buf
    /\ \A k \in (i + 1)..(j - 1) :
          last.log[k].op \notin PassStarts /\ ~SameBuffer(k, i)

\* C34: in every call, every buffer that was mapped is unmapped once, in the
\* pass that mapped it and before the buffer is allocated anew, and every
\* unmap ends a map of the same buffer: no buffer is left mapped when the
\* call ends.
C34_MapUnmapPaired ==
    \A s \in Scenes :
        last.scene = s /\ ~edited =>
            /\ \A i \in 1..Len(last.log) :
                  Mapped(i) => \E j \in (i + 1)..Len(last.log) : Lease(i, j)
            /\ \A j \in 1..Len(last.log) :
                  last.log[j].op = "UnmapBuffer" => \E i \in 1..(j - 1) : Lease(i, j)

\* A compile of scene 1 ran every pass, the shapes pass with its six buffers
\* and the two-stage textures pass among them, the texturedata buffer
\* allocated between the unmap of the headers and its own map.
C34_Witness ==
    /\ Compiled(1)
    /\ CountBufOp(last.log, "MapBuffer", "materialids") = 1
    /\ HasBufOp(last.log, "UnmapBuffer", "materialids")
    /\ HasBufOp(last.log, "UnmapBuffer", "textures")
    /\ HasBufOp(last.log, "UnmapBuffer", "texturedata")
    /\ HasBufOp(last.log, "CreateBuffer", "indices")

====
